---------------------------- MODULE Spec2Model ----------------------------
(***************************************************************************)
(* State-machine model of the chess rules engine of DrawableBoard.hpp:     *)
(* board state, move generation (legalMoves / isLegal /                    *)
(* castlingMoveIsLegal), move application and reversal (makeMove /         *)
(* unmakeMove), attack detection (inCheck) and draw detection.             *)
(***************************************************************************)
EXTENDS Integers, Sequences, FiniteSets, TLC

(***************************************************************************)
(* Bounds of the model.                                                    *)
(***************************************************************************)
\* plies the consumer may apply from the start position
MaxPly == 9
\* plies during which the consumer may pick any generated move
FreePly == 1
\* trial calls of makeMove (inside isLegal) that may return 0 in one run
MaxFalseReturns == 1
\* calls of unmakeMove by the consumer in one run
MaxUnmakes == 1
\* plies of the long quiet game
LongPly == 100
\* longest string passed to algebraicNotationToBoardIndex
MaxStrLen == 3
\* indices tried below 0 and above 63
IndexMargin == 3
\* moves applied after a position has been loaded
FenPly == 1

(***************************************************************************)
(* Piece encoding (DrawableBoard.hpp 30-37) and move flags (133-137).      *)
(***************************************************************************)
WHITE == 0
BLACK == 8
PAWN == 1
KNIGHT == 2
BISHOP == 3
ROOK == 4
QUEEN == 5
KING == 6

NONE == 0
PROMOTION == 7
LEGAL == 8
EN_PASSANT == 16
CASTLE == 32

Squares == 0..63

\* minimum of two integers
Min2(a, b) == IF a < b THEN a ELSE b

\* peice >> 3
ColorBit(p) == p \div 8

\* peice % (1 << 3)
Kind(p) == p % 8

\* `int e = !color;` / `int e = !c;` : 1 when the operand is 0, else 0
Not01(x) == IF x = 0 THEN 1 ELSE 0

(***************************************************************************)
(* Attack geometry tables of precomputed.hpp (not part of the sources at   *)
(* hand): direction indexes, per-square slide bounds, knight and king      *)
(* jump lists.  KNIGHT_MOVES[s] / KING_MOVES[s] are the lists the loops    *)
(* `for (j = 1; j < X_MOVES[s][0]; ++j) X_MOVES[s][j]` walk.               *)
(***************************************************************************)
B == 1
F == 2
L == 3
R == 4
BL == 5
FR == 6
BR == 7
FL == 8

\* the step the source's loop adds to walk direction d
DirStep(d) ==
    CASE d = B -> -8 [] d = F -> 8 [] d = L -> -1 [] d = R -> 1
      [] d = BL -> -9 [] d = FR -> 9 [] d = BR -> -7 [] d = FL -> 7

DIRECTION_BOUNDS ==
    [s \in Squares |->
        LET f == s % 8
            r == s \div 8
        IN  [d \in 1..8 |->
                CASE d = B -> f
                  [] d = F -> 56 + f
                  [] d = L -> s - f
                  [] d = R -> s - f + 7
                  [] d = BL -> s - 9 * Min2(f, r)
                  [] d = FR -> s + 9 * Min2(7 - f, 7 - r)
                  [] d = BR -> s - 7 * Min2(7 - f, r)
                  [] d = FL -> s + 7 * Min2(f, 7 - r)]]

\* the squares a loop `for (j = s + step; j within DIRECTION_BOUNDS[s][d]; j += step)`
\* visits, in order
RAYS ==
    [s \in Squares |->
        [d \in 1..8 |->
            LET n == (IF DirStep(d) > 0
                         THEN DIRECTION_BOUNDS[s][d] - s
                         ELSE s - DIRECTION_BOUNDS[s][d])
                     \div (IF DirStep(d) > 0 THEN DirStep(d) ELSE -DirStep(d))
            IN  [k \in 1..n |-> s + k * DirStep(d)]]]

\* jump list of a piece that steps by the (file, rank) offsets of `offs`
JumpList(s, offs) ==
    LET f == s % 8
        r == s \div 8
        ok == [i \in 1..Len(offs) |->
                  /\ f + offs[i][1] \in 0..7
                  /\ r + offs[i][2] \in 0..7]
    IN  SelectSeq([i \in 1..Len(offs) |->
                      IF ok[i] THEN (r + offs[i][2]) * 8 + f + offs[i][1] ELSE -1],
                  LAMBDA x : x >= 0)

KNIGHT_MOVES ==
    [s \in Squares |->
        JumpList(s, << <<-1, -2>>, <<1, -2>>, <<-2, -1>>, <<2, -1>>,
                       <<-2, 1>>, <<2, 1>>, <<-1, 2>>, <<1, 2>> >>)]

KING_MOVES ==
    [s \in Squares |->
        JumpList(s, << <<-1, -1>>, <<0, -1>>, <<1, -1>>, <<-1, 0>>,
                       <<1, 0>>, <<-1, 1>>, <<0, 1>>, <<1, 1>> >>)]

(***************************************************************************)
(* Zobrist keys of precomputed.hpp.  A hash is modelled as the set of keys *)
(* XORed into it an odd number of times (the keys taken as linearly        *)
(* independent), so `h ^= k` toggles the membership of k.                  *)
(***************************************************************************)
ZOBRIST_PEICE_KEYS(c, k, sq) == c * 384 + k * 64 + sq + 1
ZOBRIST_TURN_KEY == 769
ZOBRIST_KINGSIDE_CASTLING_KEYS(c) == 770 + c
ZOBRIST_QUEENSIDE_CASTLING_KEYS(c) == 772 + c

\* h ^ k
Xor(h, k) == IF k \in h THEN h \ {k} ELSE h \cup {k}

\* static_cast<uint32>(zobrist): the same key set, the keys truncated
Truncate32(h) == h

(***************************************************************************)
(* Move (DrawableBoard.hpp 42-153).                                        *)
(***************************************************************************)
promotion(m) == m.flags % 8
legalFlagSet(m) == (m.flags \div LEGAL) % 2 = 1
isEnPassant(m) == (m.flags \div EN_PASSANT) % 2 = 1
isCastling(m) == (m.flags \div CASTLE) % 2 = 1
MoveColor(m) == (m.moving \div 8) * 8
MoveEnemy(m) == Not01(m.moving \div 8) * 8

\* Move(board, start, target, givenFlags)
NewMove(bd, start, target, givenFlags) ==
    [start |-> start, target |-> target, moving |-> bd.peices[start],
     captured |-> IF (givenFlags \div EN_PASSANT) % 2 = 1
                     THEN Not01(bd.peices[start] \div 8) * 8 + PAWN
                     ELSE bd.peices[target],
     flags |-> givenFlags]


(***************************************************************************)
(* Board members (DrawableBoard.hpp 158-189).  A board value is a record   *)
(* of the members; the arrays eligibleEnPassantSquare[500],                *)
(* halfmovesSincePawnMoveOrCapture[250] and positionHistory[500] are       *)
(* modelled by their first HistLen cells, the only ones a run of the       *)
(* model touches.                                                          *)
(***************************************************************************)
HistLen == (IF LongPly > MaxPly THEN LongPly ELSE MaxPly) + MaxFalseReturns + 2
HistIdx == 0..(HistLen - 1)

\* content of a positionHistory cell nothing was written to yet
UNINIT == {-1}

\* a[i] = v
Store(a, i, v) == [a EXCEPT ![i] = v]

\* `if (cond) zobrist ^= k;`
XorIf(h, cond, k) == IF cond THEN Xor(h, k) ELSE h

(***************************************************************************)
(* makeMove (DrawableBoard.hpp 1023-1130): the board after the call.  The  *)
(* function has no return statement; its return value is modelled where it *)
(* is used (isLegal).                                                      *)
(***************************************************************************)
\* rookStart / rookEnd of a castling move (1062-1074, 1171-1183)
RookStart(m) ==
    LET castlingRank == m.target - (m.target % 8)
    IN  IF m.target % 8 < 4 THEN castlingRank ELSE castlingRank + 7

RookEnd(m) ==
    LET castlingRank == m.target - (m.target % 8)
    IN  IF m.target % 8 < 4 THEN castlingRank + 3 ELSE castlingRank + 5

\* square of the captured peice (1054, 1163)
CaptureSquare(m) ==
    IF isEnPassant(m) THEN m.target - 8 + 16 * (m.moving \div 8) ELSE m.target

\* 1032-1036 and 1076-1077: the peices array
MakePeices(bd, m) ==
    LET c == m.moving \div 8
        color == c * 8
        p1 == [bd.peices EXCEPT ![m.start] = 0]
        p2 == [p1 EXCEPT ![m.target] =
                  IF promotion(m) # 0 THEN color + promotion(m) ELSE m.moving]
        p3 == IF isEnPassant(m)
                 THEN [p2 EXCEPT ![m.target - 8 + 16 * c] = 0]
                 ELSE p2
        p4 == IF isCastling(m)
                 THEN [p3 EXCEPT ![RookEnd(m)] = p3[RookStart(m)]]
                 ELSE p3
    IN  IF isCastling(m) THEN [p4 EXCEPT ![RookStart(m)] = 0] ELSE p4

\* 1039-1058 and 1078-1079: zobrist before the castling-rights update
MakeZobristPeices(bd, m) ==
    LET c == m.moving \div 8
        e == Not01(c * 8)
        z1 == Xor(bd.zobrist, ZOBRIST_TURN_KEY)
        z2 == Xor(z1, ZOBRIST_PEICE_KEYS(c, Kind(m.moving) - 1, m.start))
        z3 == Xor(z2, ZOBRIST_PEICE_KEYS(c,
                         IF promotion(m) # 0 THEN promotion(m) - 1
                                             ELSE Kind(m.moving) - 1,
                         m.target))
        z4 == XorIf(z3, m.captured # 0,
                    ZOBRIST_PEICE_KEYS(e, Kind(m.captured) - 1, CaptureSquare(m)))
    IN  XorIf(XorIf(z4, isCastling(m), ZOBRIST_PEICE_KEYS(c, ROOK - 1, RookStart(m))),
              isCastling(m), ZOBRIST_PEICE_KEYS(c, ROOK - 1, RookEnd(m)))

\* the counts when a capture leaves the count of the captured peice alone
MakeNumPeices_keepsCaptured(bd, m) ==
    LET color == (m.moving \div 8) * 8
    IN  IF promotion(m) # 0
        THEN LET d == [bd.numPeices EXCEPT ![m.moving] = @ - 1]
             IN  [d EXCEPT ![color + promotion(m)] = @ + 1]
        ELSE bd.numPeices

\* 1043-1047 and 1053-1057: numPeices
MakeNumPeices(bd, m) ==
    LET color == (m.moving \div 8) * 8
        n1 == IF promotion(m) # 0
                 THEN LET d == [bd.numPeices EXCEPT ![m.moving] = @ - 1]
                      IN  [d EXCEPT ![color + promotion(m)] = @ + 1]
                 ELSE bd.numPeices
    IN  IF m.captured # 0 THEN [n1 EXCEPT ![m.captured] = @ - 1] ELSE n1

\* 1104-1127: does the move take the kingside / queenside right of the
\* mover (c) and of the other side (e)
MoverLosesKingside(m) ==
    LET color == (m.moving \div 8) * 8
    IN  \/ m.moving = color + KING
        \/ /\ m.moving = color + ROOK
           /\ IF color = WHITE THEN m.start = 7 ELSE m.start = 63

MoverLosesQueenside(m) ==
    LET color == (m.moving \div 8) * 8
    IN  \/ m.moving = color + KING
        \/ /\ m.moving = color + ROOK
           /\ IF color = WHITE THEN m.start = 0 ELSE m.start = 56

\* a test that looks at the mover's own kingside corner
EnemyLosesKingside_ownCorner(m) ==
    IF (m.moving \div 8) * 8 = BLACK THEN m.target = 63 ELSE m.target = 7

EnemyLosesKingside(m) ==
    IF (m.moving \div 8) * 8 = BLACK THEN m.target = 7 ELSE m.target = 63

EnemyLosesQueenside(m) ==
    IF (m.moving \div 8) * 8 = BLACK THEN m.target = 0 ELSE m.target = 56

makeMove(bd, m) ==
    LET c == m.moving \div 8
        color == c * 8
        e == Not01(color)
        T == bd.totalHalfmoves + 1
        reset == m.captured # 0 \/ m.moving = color + PAWN
        ksC == bd.kingsideCastlingRightsLost[c] = 0 /\ MoverLosesKingside(m)
        qsC == bd.queensideCastlingRightsLost[c] = 0 /\ MoverLosesQueenside(m)
        ksE == bd.kingsideCastlingRightsLost[e] = 0 /\ EnemyLosesKingside(m)
        qsE == bd.queensideCastlingRightsLost[e] = 0 /\ EnemyLosesQueenside(m)
        ks1 == IF ksC THEN Store(bd.kingsideCastlingRightsLost, c, T)
                      ELSE bd.kingsideCastlingRightsLost
        qs1 == IF qsC THEN Store(bd.queensideCastlingRightsLost, c, T)
                      ELSE bd.queensideCastlingRightsLost
        z0 == MakeZobristPeices(bd, m)
        z1 == XorIf(z0, ksC, ZOBRIST_KINGSIDE_CASTLING_KEYS(c))
        z2 == XorIf(z1, qsC, ZOBRIST_QUEENSIDE_CASTLING_KEYS(c))
        z3 == XorIf(z2, ksE, ZOBRIST_KINGSIDE_CASTLING_KEYS(e))
        z4 == XorIf(z3, qsE, ZOBRIST_QUEENSIDE_CASTLING_KEYS(e))
    IN  [peices |-> MakePeices(bd, m),
         zobrist |-> z4,
         numPeices |-> MakeNumPeices(bd, m),
         numTotalPeices |->
             IF m.captured # 0
                THEN [bd.numTotalPeices EXCEPT ![e] = @ - 1]
                ELSE bd.numTotalPeices,
         kingIndex |->
             IF Kind(m.moving) = KING
                THEN Store(bd.kingIndex, c, m.target)
                ELSE bd.kingIndex,
         totalHalfmoves |-> T,
         hmspmocIndex |->
             IF reset THEN bd.hmspmocIndex + 1 ELSE bd.hmspmocIndex,
         halfmovesSincePawnMoveOrCapture |->
             IF reset
                THEN Store(bd.halfmovesSincePawnMoveOrCapture, bd.hmspmocIndex, 0)
                ELSE [bd.halfmovesSincePawnMoveOrCapture
                         EXCEPT ![bd.hmspmocIndex - 1] = @ + 1],
         eligibleEnPassantSquare |->
             Store(bd.eligibleEnPassantSquare, T,
                   IF /\ Kind(m.moving) = PAWN
                      /\ (m.target - m.start = 16 \/ m.start - m.target = 16)
                      THEN (m.start + m.target) \div 2
                      ELSE -1),
         kingsideCastlingRightsLost |->
             IF ksE THEN Store(ks1, e, T) ELSE ks1,
         queensideCastlingRightsLost |->
             IF qsE THEN Store(qs1, e, T) ELSE qs1,
         positionHistory |-> Store(bd.positionHistory, T - 1, Truncate32(z4))]

(***************************************************************************)
(* unmakeMove (DrawableBoard.hpp 1133-1223): the board after the call.     *)
(***************************************************************************)
\* 1145-1150 and 1185-1186: the peices array
UnmakePeices(bd, m) ==
    LET c == m.moving \div 8
        p1 == [bd.peices EXCEPT ![m.start] = m.moving]
        p2 == [p1 EXCEPT ![m.target] = m.captured]
        p3 == IF isEnPassant(m)
                 THEN LET q == [p2 EXCEPT ![m.target] = 0]
                      IN  [q EXCEPT ![m.target - 8 + 16 * c] = m.captured]
                 ELSE p2
        p4 == IF isCastling(m)
                 THEN [p3 EXCEPT ![RookStart(m)] = p3[RookEnd(m)]]
                 ELSE p3
    IN  IF isCastling(m) THEN [p4 EXCEPT ![RookEnd(m)] = 0] ELSE p4

\* 1142-1164 and 1187-1188: zobrist before the castling-rights restore
UnmakeZobristPeices(bd, m) ==
    LET c == m.moving \div 8
        e == Not01(c * 8)
        z1 == Xor(bd.zobrist, ZOBRIST_TURN_KEY)
        z2 == Xor(z1, ZOBRIST_PEICE_KEYS(c,
                         IF promotion(m) # 0 THEN promotion(m) - 1
                                             ELSE Kind(m.moving) - 1,
                         m.target))
        z3 == Xor(z2, ZOBRIST_PEICE_KEYS(c, Kind(m.moving) - 1, m.start))
        z4 == XorIf(z3, m.captured # 0,
                    ZOBRIST_PEICE_KEYS(e, Kind(m.captured) - 1, CaptureSquare(m)))
    IN  XorIf(XorIf(z4, isCastling(m), ZOBRIST_PEICE_KEYS(c, ROOK - 1, RookStart(m))),
              isCastling(m), ZOBRIST_PEICE_KEYS(c, ROOK - 1, RookEnd(m)))

\* 1151-1153 and 1162-1166: numPeices
UnmakeNumPeices(bd, m) ==
    LET color == (m.moving \div 8) * 8
        n1 == IF promotion(m) # 0
                 THEN LET d == [bd.numPeices EXCEPT ![m.moving] = @ + 1]
                      IN  [d EXCEPT ![color + promotion(m)] = @ - 1]
                 ELSE bd.numPeices
    IN  IF m.captured # 0 THEN [n1 EXCEPT ![m.captured] = @ + 1] ELSE n1

unmakeMove(bd, m) ==
    LET c == m.moving \div 8
        color == c * 8
        e == Not01(color)
        T == bd.totalHalfmoves
        reset == m.captured # 0 \/ m.moving = color + PAWN
        ksC == bd.kingsideCastlingRightsLost[c] = T
        qsC == bd.queensideCastlingRightsLost[c] = T
        ks1 == IF ksC THEN Store(bd.kingsideCastlingRightsLost, c, 0)
                      ELSE bd.kingsideCastlingRightsLost
        qs1 == IF qsC THEN Store(bd.queensideCastlingRightsLost, c, 0)
                      ELSE bd.queensideCastlingRightsLost
        ksE == ks1[e] = T
        qsE == qs1[e] = T
        z0 == UnmakeZobristPeices(bd, m)
        z1 == XorIf(z0, ksC, ZOBRIST_KINGSIDE_CASTLING_KEYS(c))
        z2 == XorIf(z1, qsC, ZOBRIST_QUEENSIDE_CASTLING_KEYS(c))
        z3 == XorIf(z2, ksE, ZOBRIST_KINGSIDE_CASTLING_KEYS(e))
        z4 == XorIf(z3, qsE, ZOBRIST_QUEENSIDE_CASTLING_KEYS(e))
    IN  [peices |-> UnmakePeices(bd, m),
         zobrist |-> z4,
         numPeices |-> UnmakeNumPeices(bd, m),
         numTotalPeices |->
             IF m.captured # 0
                THEN [bd.numTotalPeices EXCEPT ![e] = @ + 1]
                ELSE bd.numTotalPeices,
         kingIndex |->
             IF Kind(m.moving) = KING
                THEN Store(bd.kingIndex, c, m.start)
                ELSE bd.kingIndex,
         totalHalfmoves |-> T - 1,
         hmspmocIndex |->
             IF reset THEN bd.hmspmocIndex - 1 ELSE bd.hmspmocIndex,
         halfmovesSincePawnMoveOrCapture |->
             IF reset
                THEN bd.halfmovesSincePawnMoveOrCapture
                ELSE [bd.halfmovesSincePawnMoveOrCapture
                         EXCEPT ![bd.hmspmocIndex - 1] = @ - 1],
         eligibleEnPassantSquare |-> bd.eligibleEnPassantSquare,
         kingsideCastlingRightsLost |->
             IF ksE THEN Store(ks1, e, 0) ELSE ks1,
         queensideCastlingRightsLost |->
             IF qsE THEN Store(qs1, e, 0) ELSE qs1,
         positionHistory |-> bd.positionHistory]

(***************************************************************************)
(* Helpers for the source's ray loops.                                     *)
(***************************************************************************)
\* position in `ray` of the first occupied square after position `from`,
\* 0 when the loop runs off the ray
NextOcc(p, ray, from) ==
    LET occ == {i \in (from + 1)..Len(ray) : p[ray[i]] # 0}
    IN  IF occ = {} THEN 0 ELSE CHOOSE i \in occ : \A j \in occ : i <= j

\* the loop `walk direction d from s; at the first occupied square return
\* whether it is a or b`
SliderAt(p, s, d, a, b) ==
    LET ray == RAYS[s][d]
        i == NextOcc(p, ray, 0)
    IN  i # 0 /\ (p[ray[i]] = a \/ p[ray[i]] = b)

\* f[lo] \o f[lo + 1] \o ... \o f[hi]
RECURSIVE ConcatRange(_, _, _)
ConcatRange(f, lo, hi) ==
    IF lo > hi THEN <<>>
    ELSE IF lo = hi THEN f[lo]
    ELSE ConcatRange(f, lo, (lo + hi) \div 2)
         \o ConcatRange(f, ((lo + hi) \div 2) + 1, hi)

\* the elements of a set of integers in ascending order
SortedSeq(S) ==
    [i \in 1..Cardinality(S) |->
        CHOOSE x \in S : Cardinality({y \in S : y < x}) = i - 1]

(***************************************************************************)
(* inCheck(c) (DrawableBoard.hpp 1280-1385) and inCheck() (1274-1277).     *)
(***************************************************************************)
inCheck(bd, c) ==
    LET p == bd.peices
        enemy == Not01(c) * 8
        king == bd.kingIndex[c]
        kingFile == king % 8
        ahead == king + 8 - 16 * c
    IN  \/ kingFile # 0 /\ p[ahead - 1] = enemy + PAWN
        \/ kingFile # 7 /\ p[ahead + 1] = enemy + PAWN
        \/ \E j \in 1..Len(KNIGHT_MOVES[king]) :
               p[KNIGHT_MOVES[king][j]] = enemy + KNIGHT
        \/ \E d \in {B, F, L, R} : SliderAt(p, king, d, enemy + ROOK, enemy + QUEEN)
        \/ \E d \in {BL, FR, BR, FL} :
               SliderAt(p, king, d, enemy + BISHOP, enemy + QUEEN)
        \/ \E j \in 1..Len(KING_MOVES[king]) :
               p[KING_MOVES[king][j]] = enemy + KING

inCheckToMove(bd) == inCheck(bd, bd.totalHalfmoves % 2)

\* 1287-1295: the indexes at which the pawn tests of inCheck(c) read
\* peices[]; the second test is reached unless the first returned true
inCheckPawnReads(bd, c) ==
    LET king == bd.kingIndex[c]
        kingFile == king % 8
        ahead == king + 8 - 16 * c
        returned == /\ kingFile # 0
                    /\ (ahead - 1) \in Squares
                    /\ bd.peices[ahead - 1] = Not01(c) * 8 + PAWN
    IN  (IF kingFile # 0 THEN {ahead - 1} ELSE {})
        \cup (IF kingFile # 7 /\ ~returned THEN {ahead + 1} ELSE {})

(***************************************************************************)
(* castlingMoveIsLegal (DrawableBoard.hpp 1487-1594).                      *)
(***************************************************************************)
\* a test of the king's path that leaves out the pawn attacks
CastlingSquareAttacked_noPawns(bd, s) ==
    LET p == bd.peices
        c == bd.totalHalfmoves % 2
        color == c * 8
        enemy == Not01(color) * 8
    IN  \/ \E j \in 1..Len(KNIGHT_MOVES[s]) :
               p[KNIGHT_MOVES[s][j]] = enemy + KNIGHT
        \/ IF color = BLACK
              THEN \/ SliderAt(p, s, B, enemy + ROOK, enemy + QUEEN)
                   \/ SliderAt(p, s, BL, enemy + BISHOP, enemy + QUEEN)
                   \/ SliderAt(p, s, BR, enemy + BISHOP, enemy + QUEEN)
              ELSE \/ SliderAt(p, s, F, enemy + ROOK, enemy + QUEEN)
                   \/ SliderAt(p, s, FR, enemy + BISHOP, enemy + QUEEN)
                   \/ SliderAt(p, s, FL, enemy + BISHOP, enemy + QUEEN)
        \/ \E j \in 1..Len(KING_MOVES[s]) :
               p[KING_MOVES[s][j]] = enemy + KING

\* 1509-1589: is square s of the king's path attacked, as the loop body tests it
CastlingSquareAttacked(bd, s) ==
    LET p == bd.peices
        c == bd.totalHalfmoves % 2
        color == c * 8
        enemy == Not01(color) * 8
        file == s % 8
        ahead == s + 8 - 16 * c
    IN  \/ file # 0 /\ p[ahead - 1] = enemy + PAWN
        \/ file # 7 /\ p[ahead + 1] = enemy + PAWN
        \/ \E j \in 1..Len(KNIGHT_MOVES[s]) :
               p[KNIGHT_MOVES[s][j]] = enemy + KNIGHT
        \/ IF color = BLACK
              THEN \/ SliderAt(p, s, B, enemy + ROOK, enemy + QUEEN)
                   \/ SliderAt(p, s, BL, enemy + BISHOP, enemy + QUEEN)
                   \/ SliderAt(p, s, BR, enemy + BISHOP, enemy + QUEEN)
              ELSE \/ SliderAt(p, s, F, enemy + ROOK, enemy + QUEEN)
                   \/ SliderAt(p, s, FR, enemy + BISHOP, enemy + QUEEN)
                   \/ SliderAt(p, s, FL, enemy + BISHOP, enemy + QUEEN)
        \/ \E j \in 1..Len(KING_MOVES[s]) :
               p[KING_MOVES[s][j]] = enemy + KING

castlingMoveIsLegal(bd, m) ==
    \/ legalFlagSet(m)
    \/ LET castlingRank == m.start - (m.start % 8)
           s0 == IF m.target - castlingRank < 4
                    THEN castlingRank + 2 ELSE castlingRank + 5
           end == IF m.target - castlingRank < 4
                     THEN castlingRank + 3 ELSE castlingRank + 6
       IN  \A s \in s0..end : ~CastlingSquareAttacked(bd, s)

(***************************************************************************)
(* legalMoves, first part (DrawableBoard.hpp 405-639): the scan from the   *)
(* king that counts checks and records checkingSquares and isPinned.  The  *)
(* scan value is [checks, checkingSquares, isPinned, stop]; stop is the    *)
(* `goto moveGeneration` of a second check.                                *)
(***************************************************************************)
\* 418-430: pawn checks
ScanPawns(bd, c) ==
    LET p == bd.peices
        enemy == Not01(c * 8) * 8
        king == bd.kingIndex[c]
        kingFile == king % 8
        kingAhead == king + 8 - 16 * c
        l == bd.numPeices[enemy + PAWN] # 0
                /\ kingFile # 0 /\ p[kingAhead - 1] = enemy + PAWN
        r == bd.numPeices[enemy + PAWN] # 0
                /\ kingFile # 7 /\ p[kingAhead + 1] = enemy + PAWN
    IN  [checks |-> (IF l THEN 1 ELSE 0) + (IF r THEN 1 ELSE 0),
         checkingSquares |-> (IF l THEN {kingAhead - 1} ELSE {})
                                \cup (IF r THEN {kingAhead + 1} ELSE {}),
         isPinned |-> {},
         stop |-> FALSE]

\* 418-430: the indexes at which the pawn tests of legalMoves() read peices[]
legalMovesPawnReads(bd) ==
    LET c == bd.totalHalfmoves % 2
        king == bd.kingIndex[c]
        kingFile == king % 8
        kingAhead == king + 8 - 16 * c
    IN  IF bd.numPeices[Not01(c * 8) * 8 + PAWN] # 0
        THEN (IF kingFile # 0 THEN {kingAhead - 1} ELSE {})
             \cup (IF kingFile # 7 THEN {kingAhead + 1} ELSE {})
        ELSE {}

\* 432-440: knight checks
ScanKnights(bd, c, st) ==
    LET enemy == Not01(c * 8) * 8
        king == bd.kingIndex[c]
        hits == IF bd.numPeices[enemy + KNIGHT] # 0
                   THEN {KNIGHT_MOVES[king][j] : j \in
                            {i \in 1..Len(KNIGHT_MOVES[king]) :
                                bd.peices[KNIGHT_MOVES[king][i]] = enemy + KNIGHT}}
                   ELSE {}
    IN  [st EXCEPT !.checks = @ + Cardinality(hits),
                   !.checkingSquares = @ \cup hits]

\* the end of one loop: the first peice that is not a pin candidate stands at
\* ray[i] (i = 0: none), `pin` is potentialPin
ScanHit(st, p, ray, i, pin, a, b) ==
    IF i = 0 \/ ~(p[ray[i]] = a \/ p[ray[i]] = b) THEN st
    ELSE IF pin # 0 THEN [st EXCEPT !.isPinned = @ \cup {pin}]
    ELSE IF st.checks # 0
            THEN [st EXCEPT !.checks = @ + 1, !.stop = TRUE]
    ELSE [st EXCEPT !.checks = @ + 1,
                    !.checkingSquares = @ \cup {ray[k] : k \in 1..i}]

\* `if (!potentialPin && peices[j] >> 3 == c) { potentialPin = j; continue; }`
\* met again after a first own peice on square 0 (a1), which left
\* potentialPin at 0
ScanSecond(st, p, c, ray, i, a, b) ==
    IF i # 0 /\ ColorBit(p[ray[i]]) = c
       THEN ScanHit(st, p, ray, NextOcc(p, ray, i), ray[i], a, b)
       ELSE ScanHit(st, p, ray, i, 0, a, b)

\* the same statement at the first occupied square ray[i] of the ray
ScanFirst(st, p, c, ray, i, a, b) ==
    IF i # 0 /\ ColorBit(p[ray[i]]) = c
       THEN IF ray[i] = 0
               THEN ScanSecond(st, p, c, ray, NextOcc(p, ray, i), a, b)
               ELSE ScanHit(st, p, ray, NextOcc(p, ray, i), ray[i], a, b)
       ELSE ScanHit(st, p, ray, i, 0, a, b)

\* one of the eight loops of 446-638, for direction d and the enemy sliders
\* a, b that attack along it
ScanDirection(bd, c, st, d, a, b) ==
    IF st.stop THEN st
    ELSE ScanFirst(st, bd.peices, c, RAYS[bd.kingIndex[c]][d],
                   NextOcc(bd.peices, RAYS[bd.kingIndex[c]][d], 0), a, b)

\* the directions of the eight loops in the order of the source
ScanOrder == << B, F, L, R, BL, FR, BR, FL >>

\* 442-639: the first k loops; the four of the rook directions run when the
\* enemy has a rook or a queen, the four of the bishop directions when it
\* has a bishop or a queen
RECURSIVE ScanLoops(_, _, _, _)
ScanLoops(bd, c, st, k) ==
    IF k = 0 THEN st
    ELSE IF k <= 4
    THEN IF bd.numPeices[Not01(c * 8) * 8 + ROOK] # 0
            \/ bd.numPeices[Not01(c * 8) * 8 + QUEEN] # 0
         THEN ScanDirection(bd, c, ScanLoops(bd, c, st, k - 1), ScanOrder[k],
                            Not01(c * 8) * 8 + ROOK, Not01(c * 8) * 8 + QUEEN)
         ELSE st
    ELSE IF bd.numPeices[Not01(c * 8) * 8 + BISHOP] # 0
            \/ bd.numPeices[Not01(c * 8) * 8 + QUEEN] # 0
         THEN ScanDirection(bd, c, ScanLoops(bd, c, st, k - 1), ScanOrder[k],
                            Not01(c * 8) * 8 + BISHOP, Not01(c * 8) * 8 + QUEEN)
         ELSE ScanLoops(bd, c, st, 4)

ScanSliders(bd, c, st) == ScanLoops(bd, c, st, 8)

\* 414-639
CheckScan(bd) ==
    LET c == bd.totalHalfmoves % 2
    IN  ScanSliders(bd, c, ScanKnights(bd, c, ScanPawns(bd, c)))

(***************************************************************************)
(* legalMoves, second part (DrawableBoard.hpp 641-1016): the candidate     *)
(* moves, in the order the source appends them to `moves`.                 *)
(***************************************************************************)
\* the four emplace_back calls of a promotion (knight, bishop, rook, queen)
PromotionMoves(bd, s, t, flag) ==
    << NewMove(bd, s, t, flag + KNIGHT), NewMove(bd, s, t, flag + BISHOP),
       NewMove(bd, s, t, flag + ROOK), NewMove(bd, s, t, flag + QUEEN) >>

\* a pawn move to t that promotes when `promo`
PawnMoves(bd, s, t, flag, promo) ==
    IF promo THEN PromotionMoves(bd, s, t, flag) ELSE << NewMove(bd, s, t, flag) >>

\* 646-651 and 679-684: king moves when in check
KingMovesInCheck(bd, c, st) ==
    LET p == bd.peices
        e == Not01(c * 8)
        king == bd.kingIndex[c]
        ts == SelectSeq(KING_MOVES[king],
                        LAMBDA t : \/ p[t] = 0 /\ t \notin st.checkingSquares
                                   \/ ColorBit(p[t]) = e)
    IN  [i \in 1..Len(ts) |-> NewMove(bd, king, ts[i], NONE)]

\* 656-675: en passant moves
EnPassantMoves(bd, c, st) ==
    LET p == bd.peices
        color == c * 8
        epSquare == bd.eligibleEnPassantSquare[bd.totalHalfmoves]
        epfile == epSquare % 8
        from1 == IF color = WHITE THEN epSquare - 9 ELSE epSquare + 7
        from2 == IF color = WHITE THEN epSquare - 7 ELSE epSquare + 9
        behind == IF color = WHITE THEN epSquare - 8 ELSE epSquare + 8
        resolves == st.checks = 0 \/ behind \in st.checkingSquares
    IN  IF epSquare >= 0
           THEN (IF epfile # 0 /\ p[from1] = color + PAWN /\ resolves
                    THEN << NewMove(bd, from1, epSquare, EN_PASSANT) >> ELSE <<>>)
                \o (IF epfile # 7 /\ p[from2] = color + PAWN /\ resolves
                       THEN << NewMove(bd, from2, epSquare, EN_PASSANT) >> ELSE <<>>)
           ELSE <<>>

\* 689-735: pawns that can capture on or advance to checking square t
BackwardPawnMoves(bd, c, st, t) ==
    LET p == bd.peices
        color == c * 8
        e == Not01(color)
        file == t % 8
        ahead == t - 8 + 16 * c
        promo == t \div 8 = 0 \/ t \div 8 = 7
        doubleAhead == ahead - 8 + 16 * c
    IN  IF /\ bd.numPeices[color + PAWN] # 0
           /\ \/ color = WHITE /\ t \div 8 >= 2
              \/ color = BLACK /\ t \div 8 <= 5
        THEN IF p[t] # 0 /\ ColorBit(p[t]) = e
             THEN (IF /\ file # 0 /\ p[ahead - 1] = color + PAWN
                      /\ (ahead - 1) \notin st.isPinned
                      THEN PawnMoves(bd, ahead - 1, t, LEGAL, promo) ELSE <<>>)
                  \o (IF /\ file # 7 /\ p[ahead + 1] = color + PAWN
                         /\ (ahead + 1) \notin st.isPinned
                         THEN PawnMoves(bd, ahead + 1, t, LEGAL, promo) ELSE <<>>)
             ELSE IF p[t] = 0
             THEN IF p[ahead] = color + PAWN /\ ahead \notin st.isPinned
                  THEN PawnMoves(bd, ahead, t, LEGAL, promo)
                  ELSE IF /\ (doubleAhead \div 8 = 1 \/ doubleAhead \div 8 = 6)
                          /\ p[ahead] = 0
                          /\ p[doubleAhead] = color + PAWN
                          /\ doubleAhead \notin st.isPinned
                       THEN << NewMove(bd, doubleAhead, t, LEGAL) >>
                       ELSE <<>>
             ELSE <<>>
        ELSE <<>>

\* 737-744: knights that can jump to checking square t
BackwardKnightMoves(bd, c, st, t) ==
    LET color == c * 8
        ss == SelectSeq(KNIGHT_MOVES[t],
                        LAMBDA s : /\ bd.peices[s] = color + KNIGHT
                                   /\ s \notin st.isPinned)
    IN  IF bd.numPeices[color + KNIGHT] # 0
           THEN [i \in 1..Len(ss) |-> NewMove(bd, ss[i], t, LEGAL)]
           ELSE <<>>

\* one loop of 746-821: a slider a or b that reaches t along direction d
BackwardSlide(bd, st, t, d, a, b) ==
    LET p == bd.peices
        ray == RAYS[t][d]
        i == NextOcc(p, ray, 0)
    IN  IF /\ i # 0
           /\ (p[ray[i]] = a \/ p[ray[i]] = b)
           /\ ray[i] \notin st.isPinned
        THEN << NewMove(bd, ray[i], t, LEGAL) >>
        ELSE <<>>

\* 746-821
BackwardSliderMoves(bd, c, st, t) ==
    LET color == c * 8
        rq == bd.numPeices[color + ROOK] # 0 \/ bd.numPeices[color + QUEEN] # 0
        bq == bd.numPeices[color + BISHOP] # 0 \/ bd.numPeices[color + QUEEN] # 0
    IN  (IF rq
            THEN BackwardSlide(bd, st, t, B, color + ROOK, color + QUEEN)
                 \o BackwardSlide(bd, st, t, F, color + ROOK, color + QUEEN)
                 \o BackwardSlide(bd, st, t, L, color + ROOK, color + QUEEN)
                 \o BackwardSlide(bd, st, t, R, color + ROOK, color + QUEEN)
            ELSE <<>>)
        \o (IF bq
               THEN BackwardSlide(bd, st, t, BL, color + BISHOP, color + QUEEN)
                    \o BackwardSlide(bd, st, t, FR, color + BISHOP, color + QUEEN)
                    \o BackwardSlide(bd, st, t, BR, color + BISHOP, color + QUEEN)
                    \o BackwardSlide(bd, st, t, FL, color + BISHOP, color + QUEEN)
               ELSE <<>>)

\* 686-822: the backward search from every checking square (the iteration
\* order of the unordered_set is taken ascending; every move found carries
\* the LEGAL flag, so the order does not reach the filter's outcome)
BackwardMoves(bd, c, st) ==
    LET ts == SortedSeq(st.checkingSquares)
        per == [i \in 1..Len(ts) |->
                   BackwardPawnMoves(bd, c, st, ts[i])
                   \o BackwardKnightMoves(bd, c, st, ts[i])
                   \o BackwardSliderMoves(bd, c, st, ts[i])]
    IN  ConcatRange(per, 1, Len(ts))

\* 827-853: castling candidates
CastlingMoves(bd, c, st) ==
    LET p == bd.peices
        castlingRank == 56 * c
    IN  (IF /\ bd.kingsideCastlingRightsLost[c] = 0 /\ st.checks = 0
            /\ \A j \in (castlingRank + 5)..(castlingRank + 6) : p[j] = 0
            THEN << NewMove(bd, castlingRank + 4, castlingRank + 6, CASTLE) >>
            ELSE <<>>)
        \o (IF /\ bd.queensideCastlingRightsLost[c] = 0 /\ st.checks = 0
               /\ \A j \in (castlingRank + 1)..(castlingRank + 3) : p[j] = 0
               THEN << NewMove(bd, castlingRank + 4, castlingRank + 2, CASTLE) >>
               ELSE <<>>)

\* `(!checks || checkingSquares.count(t))`
Resolves(st, t) == st.checks = 0 \/ t \in st.checkingSquares

\* 861-908: moves of the pawn on s
GeneralPawnMoves(bd, c, st, s, legalFlag) ==
    LET p == bd.peices
        color == c * 8
        e == Not01(color)
        file == s % 8
        ahead == s + 8 - 16 * c
        promo == IF color = WHITE THEN s \div 8 = 6 ELSE s \div 8 = 1
        doubleJumpAllowed == IF color = WHITE THEN s \div 8 = 1 ELSE s \div 8 = 6
        doubleAhead == ahead + 8 - 16 * c
    IN  (IF p[ahead] = 0
            THEN (IF Resolves(st, ahead)
                     THEN PawnMoves(bd, s, ahead, legalFlag, promo) ELSE <<>>)
                 \o (IF /\ doubleJumpAllowed /\ p[doubleAhead] = 0
                        /\ Resolves(st, doubleAhead)
                        THEN << NewMove(bd, s, doubleAhead, legalFlag) >> ELSE <<>>)
            ELSE <<>>)
        \o (IF /\ file # 0 /\ p[ahead - 1] # 0 /\ ColorBit(p[ahead - 1]) = e
               /\ Resolves(st, ahead - 1)
               THEN PawnMoves(bd, s, ahead - 1, legalFlag, promo) ELSE <<>>)
        \o (IF /\ file # 7 /\ p[ahead + 1] # 0 /\ ColorBit(p[ahead + 1]) = e
               /\ Resolves(st, ahead + 1)
               THEN PawnMoves(bd, s, ahead + 1, legalFlag, promo) ELSE <<>>)

\* 909-918: moves of the knight on s
GeneralKnightMoves(bd, c, st, s, legalFlag) ==
    LET p == bd.peices
        e == Not01(c * 8)
        ts == SelectSeq(KNIGHT_MOVES[s],
                        LAMBDA t : /\ (p[t] = 0 \/ ColorBit(p[t]) = e)
                                   /\ Resolves(st, t))
    IN  [i \in 1..Len(ts) |-> NewMove(bd, s, ts[i], legalFlag)]

\* one loop of 926-1001: slide from s along direction d
GeneralSlide(bd, c, st, s, d, legalFlag) ==
    LET p == bd.peices
        e == Not01(c * 8)
        ray == RAYS[s][d]
        n == NextOcc(p, ray, 0)
        upto == IF n = 0 THEN Len(ray) ELSE n
        ts == SelectSeq(SubSeq(ray, 1, upto),
                        LAMBDA t : /\ (p[t] = 0 \/ ColorBit(p[t]) = e)
                                   /\ Resolves(st, t))
    IN  [i \in 1..Len(ts) |-> NewMove(bd, s, ts[i], legalFlag)]

\* 919-1004: moves of the bishop, rook or queen on s
GeneralSliderMoves(bd, c, st, s, legalFlag) ==
    LET k == Kind(bd.peices[s])
    IN  (IF k # BISHOP
            THEN GeneralSlide(bd, c, st, s, B, legalFlag)
                 \o GeneralSlide(bd, c, st, s, F, legalFlag)
                 \o GeneralSlide(bd, c, st, s, L, legalFlag)
                 \o GeneralSlide(bd, c, st, s, R, legalFlag)
            ELSE <<>>)
        \o (IF k # ROOK
               THEN GeneralSlide(bd, c, st, s, BL, legalFlag)
                    \o GeneralSlide(bd, c, st, s, FR, legalFlag)
                    \o GeneralSlide(bd, c, st, s, BR, legalFlag)
                    \o GeneralSlide(bd, c, st, s, FL, legalFlag)
               ELSE <<>>)

\* 1005-1013: moves of the king on s
GeneralKingMoves(bd, c, s) ==
    LET p == bd.peices
        e == Not01(c * 8)
        ts == SelectSeq(KING_MOVES[s], LAMBDA t : p[t] = 0 \/ ColorBit(p[t]) = e)
    IN  [i \in 1..Len(ts) |-> NewMove(bd, s, ts[i], NONE)]

\* 856-1016: the body of the loop over the squares, for square s
GeneralMoves(bd, c, st, s) ==
    LET p == bd.peices
        legalFlag == IF s \in st.isPinned THEN NONE ELSE LEGAL
        k == Kind(p[s])
    IN  IF p[s] # 0 /\ ColorBit(p[s]) = c
        THEN CASE k = PAWN -> GeneralPawnMoves(bd, c, st, s, legalFlag)
               [] k = KNIGHT -> GeneralKnightMoves(bd, c, st, s, legalFlag)
               [] k \in {BISHOP, ROOK, QUEEN} ->
                      GeneralSliderMoves(bd, c, st, s, legalFlag)
               [] k = KING -> GeneralKingMoves(bd, c, s)
               [] OTHER -> <<>>
        ELSE <<>>

\* 641-1016: the vector `moves` before the erase/remove_if that filters it
CandidatesAfterScan(bd, c, st) ==
    IF st.checks > 1 THEN KingMovesInCheck(bd, c, st)
    ELSE IF st.checks # 0 /\ Cardinality(st.checkingSquares) < 3
    THEN EnPassantMoves(bd, c, st) \o KingMovesInCheck(bd, c, st)
         \o BackwardMoves(bd, c, st)
    ELSE EnPassantMoves(bd, c, st) \o CastlingMoves(bd, c, st)
         \o ConcatRange([s \in Squares |-> GeneralMoves(bd, c, st, s)], 0, 63)

Candidates(bd) == CandidatesAfterScan(bd, bd.totalHalfmoves % 2, CheckScan(bd))

(***************************************************************************)
(* isLegal (DrawableBoard.hpp 1462-1483) and the filter of legalMoves      *)
(* (652, 823, 1018).  isLegal branches on the value of makeMove(move), a   *)
(* function that ends without a return statement: the value is whatever    *)
(* the build leaves in the return register, so it is an input `ret` of the *)
(* model.  The result is [ok, board]: the answer and the board the call    *)
(* leaves behind.                                                          *)
(***************************************************************************)
\* does isLegal reach `if (makeMove(move))` for this move
TrialMove(m) == ~legalFlagSet(m) /\ ~isCastling(m)

isLegal(bd, m, ret) ==
    IF legalFlagSet(m) THEN [ok |-> TRUE, board |-> bd]
    ELSE IF isCastling(m)
    THEN [ok |-> ~inCheckToMove(bd) /\ castlingMoveIsLegal(bd, m), board |-> bd]
    ELSE IF ret
    THEN [ok |-> TRUE, board |-> unmakeMove(makeMove(bd, m), m)]
    ELSE [ok |-> FALSE, board |-> makeMove(bd, m)]

\* the positions of the candidates isLegal tries with makeMove
TrialPositions(cands) == {i \in 1..Len(cands) : TrialMove(cands[i])}

\* the subsets of S of at most n elements
RECURSIVE SubsetsUpTo(_, _)
SubsetsUpTo(S, n) ==
    IF n <= 0 THEN {{}}
    ELSE SubsetsUpTo(S, n - 1)
         \cup {s \cup {x} : s \in SubsetsUpTo(S, n - 1), x \in S}

\* moves.erase(std::remove_if(..., !isLegal(m)), ...): isLegal is called on
\* the candidates in order, each call on the board the one before left;
\* falseAt holds the positions of the candidates whose trial makeMove
\* returns 0.  Only a trial call can change the board, so the board a call
\* finds is the one the trial calls before it left: BoardAfterTrials is the
\* board after the first k trial calls.
RECURSIVE BoardAfterTrials(_, _, _, _, _)
BoardAfterTrials(bd, cands, trials, k, falseAt) ==
    IF k = 0 THEN bd
    ELSE CHOOSE after \in
             {isLegal(before, cands[trials[k]], trials[k] \notin falseAt).board :
                 before \in {BoardAfterTrials(bd, cands, trials, k - 1, falseAt)}} : TRUE

FilterMoves(bd, cands, falseAt) ==
    LET trials == SortedSeq(TrialPositions(cands))
        before(i) == Cardinality({k \in 1..Len(trials) : trials[k] < i})
        keep == {i \in 1..Len(cands) :
                    IF legalFlagSet(cands[i]) THEN TRUE
                    ELSE IF isCastling(cands[i])
                    THEN isLegal(BoardAfterTrials(bd, cands, trials, before(i), falseAt),
                                 cands[i], TRUE).ok
                    ELSE i \notin falseAt}
        kept == SortedSeq(keep)
    IN  [board |-> BoardAfterTrials(bd, cands, trials, Len(trials), falseAt),
         moves |-> [j \in 1..Len(kept) |-> cands[kept[j]]]]

\* legalMoves() (403-1020): [board, moves], the board it leaves and the
\* vector it returns
legalMoves(bd, falseAt) == FilterMoves(bd, Candidates(bd), falseAt)

(***************************************************************************)
(* Draw detection (DrawableBoard.hpp 1226-1271).                           *)
(***************************************************************************)
\* a read of the cell above the top of the stack
HalfmoveClock_pastTop(bd) == bd.halfmovesSincePawnMoveOrCapture[bd.hmspmocIndex]

HalfmoveClock(bd) == bd.halfmovesSincePawnMoveOrCapture[bd.hmspmocIndex - 1]

\* a fifty-move test that counts past the hundredth ply
isDrawByFiftyMoveRule_late(bd) == HalfmoveClock(bd) > 100

\* 1256-1259
isDrawByFiftyMoveRule(bd) == HalfmoveClock(bd) >= 50

\* 1262-1271
isDrawByInsufficientMaterial(bd) ==
    IF bd.numTotalPeices[0] > 3 \/ bd.numTotalPeices[1] > 3 THEN FALSE
    ELSE IF bd.numTotalPeices[0] = 3 \/ bd.numTotalPeices[1] = 3
    THEN /\ (bd.numPeices[WHITE + KNIGHT] = 2 \/ bd.numPeices[BLACK + KNIGHT] = 2)
         /\ (bd.numTotalPeices[0] = 1 \/ bd.numTotalPeices[1] = 1)
    ELSE ~(\/ bd.numPeices[WHITE + PAWN] # 0 \/ bd.numPeices[BLACK + PAWN] # 0
           \/ bd.numPeices[WHITE + ROOK] # 0 \/ bd.numPeices[BLACK + ROOK] # 0
           \/ bd.numPeices[WHITE + QUEEN] # 0 \/ bd.numPeices[BLACK + QUEEN] # 0)

\* 1243-1251: the loop, from iteration i with `index` and `repititionFound`
RECURSIVE RepetitionLoop(_, _, _, _, _)
RepetitionLoop(bd, i, n, index, found) ==
    IF i >= n THEN FALSE
    ELSE IF bd.positionHistory[index] = Truncate32(bd.zobrist)
    THEN found \/ RepetitionLoop(bd, i + 1, n, index - 2, TRUE)
    ELSE RepetitionLoop(bd, i + 1, n, index - 2, found)

\* 1232-1253: isDrawByThreefoldRepitition; `bool repititionFound;` is read
\* without having been initialised, so its first value is an input `garbage`
isDrawByThreefoldRepitition(bd, garbage) ==
    IF HalfmoveClock(bd) < 8 THEN FALSE
    ELSE RepetitionLoop(bd, 0, HalfmoveClock(bd) \div 2 - 1,
                        bd.totalHalfmoves - 4, garbage)

\* 1226-1229
isDraw(bd, garbage) ==
    \/ isDrawByFiftyMoveRule(bd)
    \/ isDrawByInsufficientMaterial(bd)
    \/ isDrawByThreefoldRepitition(bd, garbage)

(***************************************************************************)
(* initializeFen (DrawableBoard.hpp 207-400) on the fields of a FEN        *)
(* string: the placement as the peices array the parse loop (225-285)      *)
(* fills, the active colour, the castling letters, the en passant square   *)
(* (-1 for "-"), the halfmove clock and the fullmove number.               *)
(***************************************************************************)
\* 389-397: the hash, numPeices and numTotalPeices of a placement
PeiceKeys(p) ==
    {ZOBRIST_PEICE_KEYS(ColorBit(p[i]), Kind(p[i]) - 1, i) :
        i \in {j \in Squares : p[j] # 0}}

CountPeices(p) ==
    [x \in 0..14 |-> IF x = 0 THEN 0 ELSE Cardinality({i \in Squares : p[i] = x})]

CountTotal(p) ==
    [c \in 0..1 |-> Cardinality({i \in Squares : p[i] # 0 /\ ColorBit(p[i]) = c})]

\* 255-259: kingIndex as the parse loop leaves it (the last king of each
\* colour in the order of the placement field: ranks 8 to 1, files a to h)
ParsedKingIndex(p, c) ==
    LET ks == {i \in Squares : p[i] = c * 8 + KING}
    IN  CHOOSE i \in ks :
            \A j \in ks : j \div 8 > i \div 8 \/ (j \div 8 = i \div 8 /\ j <= i)

\* 311-342: a castling letter grants the right only with king and rook at home
GrantsKingside(p, letters, c) ==
    /\ (IF c = 0 THEN "K" ELSE "k") \in letters
    /\ p[56 * c + 4] = c * 8 + KING /\ p[56 * c + 7] = c * 8 + ROOK

GrantsQueenside(p, letters, c) ==
    /\ (IF c = 0 THEN "Q" ELSE "q") \in letters
    /\ p[56 * c + 4] = c * 8 + KING /\ p[56 * c] = c * 8 + ROOK

initializeFenFields(p, blackToMove, letters, ep, halfmoveClock, fullmoveNumber) ==
    LET T == (IF blackToMove THEN 1 ELSE 0) + (fullmoveNumber * 2 - 2)
        zTurn == IF blackToMove THEN {ZOBRIST_TURN_KEY} ELSE {}
        zCastle == {ZOBRIST_KINGSIDE_CASTLING_KEYS(c) :
                       c \in {x \in 0..1 : GrantsKingside(p, letters, x)}}
                   \cup {ZOBRIST_QUEENSIDE_CASTLING_KEYS(c) :
                            c \in {x \in 0..1 : GrantsQueenside(p, letters, x)}}
    IN  [peices |-> p,
         zobrist |-> zTurn \cup zCastle \cup PeiceKeys(p),
         numPeices |-> CountPeices(p),
         numTotalPeices |-> CountTotal(p),
         kingIndex |-> [c \in 0..1 |-> ParsedKingIndex(p, c)],
         totalHalfmoves |-> T,
         hmspmocIndex |-> 1,
         halfmovesSincePawnMoveOrCapture |->
             [i \in HistIdx |-> IF i = 0 THEN halfmoveClock ELSE 0],
         eligibleEnPassantSquare |-> [i \in HistIdx |-> IF i = T THEN ep ELSE -1],
         kingsideCastlingRightsLost |->
             [c \in 0..1 |-> IF GrantsKingside(p, letters, c) THEN 0 ELSE -1],
         queensideCastlingRightsLost |->
             [c \in 0..1 |-> IF GrantsQueenside(p, letters, c) THEN 0 ELSE -1],
         positionHistory |-> [i \in HistIdx |-> UNINIT]]

\* the peices array of "rnbqkbnr/pppppppp/8/8/8/8/PPPPPPPP/RNBQKBNR"
StartPeices ==
    LET back == <<ROOK, KNIGHT, BISHOP, QUEEN, KING, BISHOP, KNIGHT, ROOK>>
    IN  [i \in Squares |->
            CASE i \div 8 = 0 -> WHITE + back[(i % 8) + 1]
              [] i \div 8 = 1 -> WHITE + PAWN
              [] i \div 8 = 6 -> BLACK + PAWN
              [] i \div 8 = 7 -> BLACK + back[(i % 8) + 1]
              [] OTHER -> 0]

\* initializeFen("rnbqkbnr/pppppppp/8/8/8/8/PPPPPPPP/RNBQKBNR w KQkq - 0 1"),
\* before its last statement
StartBoard == initializeFenFields(StartPeices, FALSE, {"K", "Q", "k", "q"}, -1, 0, 1)

(***************************************************************************)
(* Characters and strings.  A std::string is a TLA+ string; its i-th char  *)
(* is the one-character string SubSeq(s, i, i).  Ascii lists the chars of  *)
(* codes 43 ('+') to 122 ('z') in order, which gives char arithmetic such  *)
(* as '1' + n and ch - 'a' its meaning; the grave accent (code 96), which  *)
(* a TLA+ string cannot hold, is written ~.                                *)
(***************************************************************************)
Ascii ==
    "+,-./0123456789:;<=>?@ABCDEFGHIJKLMNOPQRSTUVWXYZ[\\]^_~abcdefghijklmnopqrstuvwxyz"

CharAt(s, i) == SubSeq(s, i, i)

\* the char code of a one-character string of Ascii
Code(ch) == 42 + (CHOOSE i \in 1..Len(Ascii) : CharAt(Ascii, i) = ch)

\* the char of a code
Chr(n) == CharAt(Ascii, n - 42)

\* std::isdigit
isdigit(ch) == Code(ch) >= Code("0") /\ Code(ch) <= Code("9")

\* std::isalpha
isalpha(ch) ==
    \/ Code(ch) >= Code("A") /\ Code(ch) <= Code("Z")
    \/ Code(ch) >= Code("a") /\ Code(ch) <= Code("z")

\* the outcome of a call that returns a value or throws std::invalid_argument
Returns(v) == [threw |-> FALSE, value |-> v]
Throws(what) == [threw |-> TRUE, what |-> what]

\* 1606-1620 with the rank test one too wide
algebraicNotationToBoardIndex_wide(algebraic) ==
    IF Len(algebraic) # 2
    THEN Throws("Algebraic notation should only be two letters long!")
    ELSE LET file == Code(CharAt(algebraic, 1)) - Code("a")
             rank == Code(CharAt(algebraic, 2)) - Code("1")
         IN  IF file < 0 \/ file > 7 \/ rank < 0 \/ rank > 8
             THEN Throws("Algebraic notation should be in the form [a-h][1-8]!")
             ELSE Returns(rank * 8 + file)

\* 1606-1620
algebraicNotationToBoardIndex(algebraic) ==
    IF Len(algebraic) # 2
    THEN Throws("Algebraic notation should only be two letters long!")
    ELSE LET file == Code(CharAt(algebraic, 1)) - Code("a")
             rank == Code(CharAt(algebraic, 2)) - Code("1")
         IN  IF file < 0 \/ file > 7 \/ rank < 0 \/ rank > 7
             THEN Throws("Algebraic notation should be in the form [a-h][1-8]!")
             ELSE Returns(rank * 8 + file)

\* 1626-1640
boardIndexToAlgebraicNotation(boardIndex) ==
    IF boardIndex < 0 \/ boardIndex > 63
    THEN Throws("Algebraic notation should only be two letters long!")
    ELSE Returns(Chr(Code("a") + (boardIndex % 8)) \o Chr(Code("1") + (boardIndex \div 8)))

(***************************************************************************)
(* The library calls of initializeFen and asFEN: std::to_string,           *)
(* std::stoi and the std::getline calls that cut the string at its spaces. *)
(***************************************************************************)
RECURSIVE DecimalDigits(_)
DecimalDigits(n) ==
    IF n < 10 THEN Chr(Code("0") + n)
    ELSE DecimalDigits(n \div 10) \o Chr(Code("0") + (n % 10))

\* std::to_string(int)
to_string(n) == IF n < 0 THEN "-" \o DecimalDigits(0 - n) ELSE DecimalDigits(n)

\* the value of the digits of str from position i on, up to the first char
\* that is no digit; acc is the value so far
RECURSIVE DigitsValue(_, _, _)
DigitsValue(str, i, acc) ==
    IF i > Len(str) \/ ~isdigit(CharAt(str, i)) THEN acc
    ELSE DigitsValue(str, i + 1, acc * 10 + (Code(CharAt(str, i)) - Code("0")))

\* std::stoi(str): an optional sign, then the longest run of digits; what
\* follows the digits is ignored, and no digit at all throws
\* std::invalid_argument (the values of the model stay far from INT_MAX)
stoi(str) ==
    LET signed == Len(str) > 0 /\ CharAt(str, 1) \in {"+", "-"}
        first == IF signed THEN 2 ELSE 1
    IN  IF first > Len(str) \/ ~isdigit(CharAt(str, first))
        THEN Throws("stoi")
        ELSE Returns((IF signed /\ CharAt(str, 1) = "-" THEN -1 ELSE 1)
                         * DigitsValue(str, first, 0))

\* the positions of the delimiter of std::getline(stream, field, ' ')
SpacePositions(s) == {i \in 1..Len(s) : CharAt(s, i) = " "}

\* how many std::getline calls on the stream of s succeed: one for each
\* delimiter, and one more when chars follow the last delimiter
NumFields(s) ==
    IF Len(s) = 0 THEN 0
    ELSE Cardinality(SpacePositions(s)) + (IF CharAt(s, Len(s)) = " " THEN 0 ELSE 1)

\* the position of the k-th delimiter, or one past the end of s
Delimiter(s, k) ==
    IF k >= 1 /\ k <= Cardinality(SpacePositions(s))
    THEN CHOOSE i \in SpacePositions(s) :
             Cardinality({j \in SpacePositions(s) : j <= i}) = k
    ELSE IF k = 0 THEN 0 ELSE Len(s) + 1

\* what the k-th std::getline call reads
Field(s, k) ==
    IF Delimiter(s, k - 1) + 1 > Delimiter(s, k) - 1 THEN ""
    ELSE SubSeq(s, Delimiter(s, k - 1) + 1, Delimiter(s, k) - 1)

(***************************************************************************)
(* asFEN (DrawableBoard.hpp 1388-1459).                                    *)
(***************************************************************************)
\* 1407: pcs[(peice % 8) - 1] + 32 * (peice >> 3)
PeiceChar(peice) == Chr(Code(CharAt("PNBRQK", Kind(peice))) + 32 * ColorBit(peice))

\* 1403-1406, 1410-1413: the gap char, if there is a gap
GapChar(gap) == IF gap > 0 THEN Chr(Code("0") + gap) ELSE ""

\* 1396-1413: the chars of the rank that starts at square i, from file j on
RECURSIVE RankText(_, _, _, _)
RankText(p, i, j, gap) ==
    IF j = 8 THEN GapChar(gap)
    ELSE IF p[i + j] = 0 THEN RankText(p, i, j + 1, gap + 1)
    ELSE GapChar(gap) \o PeiceChar(p[i + j]) \o RankText(p, i, j + 1, 0)

\* 1395-1418: ranks 8 to 1 with '/' between them
RECURSIVE PlacementText(_, _)
PlacementText(p, i) ==
    IF i = 0 THEN RankText(p, 0, 0, 0)
    ELSE RankText(p, i, 0, 0) \o "/" \o PlacementText(p, i - 8)

\* 1424-1441
CastlingText(bd) ==
    LET letters == (IF bd.kingsideCastlingRightsLost[0] = 0 THEN "K" ELSE "")
                   \o (IF bd.queensideCastlingRightsLost[0] = 0 THEN "Q" ELSE "")
                   \o (IF bd.kingsideCastlingRightsLost[1] = 0 THEN "k" ELSE "")
                   \o (IF bd.queensideCastlingRightsLost[1] = 0 THEN "q" ELSE "")
    IN  IF Len(letters) = 0 THEN "- " ELSE letters \o " "

\* 1443-1448
EnPassantText(bd) ==
    IF bd.eligibleEnPassantSquare[bd.totalHalfmoves] >= 0
    THEN boardIndexToAlgebraicNotation(
             bd.eligibleEnPassantSquare[bd.totalHalfmoves]).value \o " "
    ELSE "- "

\* 1388-1459; the last statement appends the one char '1' + totalHalfmoves / 2
asFEN(bd) ==
    PlacementText(bd.peices, 56)
    \o (IF bd.totalHalfmoves % 2 = 1 THEN " b " ELSE " w ")
    \o CastlingText(bd)
    \o EnPassantText(bd)
    \o to_string(HalfmoveClock(bd))
    \o " "
    \o Chr(Code("1") + (bd.totalHalfmoves \div 2))

(***************************************************************************)
(* initializeFen (DrawableBoard.hpp 207-400) on the string itself, from    *)
(* the board bd the object holds when it is called.  The result is the     *)
(* board the call leaves (before its last statement, the legalMoves()      *)
(* call), the message of the exception it threw ("" when it returned),     *)
(* and whether it wrote outside an array, which is undefined behaviour.    *)
(* The stages are written last to first.                                   *)
(***************************************************************************)
Returned(bd) == [board |-> bd, what |-> "", undefined |-> FALSE]
Failed(bd, what) == [board |-> bd, what |-> what, undefined |-> FALSE]
Undefined(bd) == [board |-> bd, what |-> "", undefined |-> TRUE]

\* 389-397: the hash and the counts of the placement
HashAndCount(bd) ==
    [bd EXCEPT !.zobrist = (@ \ PeiceKeys(bd.peices)) \cup (PeiceKeys(bd.peices) \ @),
               !.numPeices = CountPeices(bd.peices),
               !.numTotalPeices = CountTotal(bd.peices)]

\* 374-387: the en passant squares are cleared, then the one of the current
\* ply is written; the array has 500 cells, the model keeps HistLen of them
EnPassantField(bd, target) ==
    IF target # "-" /\ algebraicNotationToBoardIndex(target).threw
    THEN Failed([bd EXCEPT !.eligibleEnPassantSquare = [i \in HistIdx |-> -1]],
                "Invalid FEN en passant target! ")
    ELSE IF bd.totalHalfmoves \notin HistIdx
    THEN Undefined(bd)
    ELSE Returned(HashAndCount(
             [bd EXCEPT !.eligibleEnPassantSquare =
                 [i \in HistIdx |->
                     IF i = bd.totalHalfmoves /\ target # "-"
                     THEN algebraicNotationToBoardIndex(target).value
                     ELSE -1]]))

\* 362-372
FullmoveField(bd, fullmoveNumber, target) ==
    IF stoi(fullmoveNumber).threw
    THEN Failed(bd, "Invalid FEN full move number! ")
    ELSE EnPassantField(
             [bd EXCEPT !.totalHalfmoves = @ + (stoi(fullmoveNumber).value * 2 - 2)],
             target)

\* 349-360: `hmspmocIndex = 0;` then
\* `halfmovesSincePawnMoveOrCapture[hmspmocIndex++] = stoi(halfmoveClock)`;
\* when stoi throws, the increment has taken place or not (early), as the
\* two sides of the assignment are evaluated in either order
HalfmoveField(bd, halfmoveClock, early) ==
    IF stoi(halfmoveClock).threw
    THEN [bd EXCEPT !.hmspmocIndex = IF early THEN 1 ELSE 0]
    ELSE [bd EXCEPT !.hmspmocIndex = 1,
                    !.halfmovesSincePawnMoveOrCapture[0] = stoi(halfmoveClock).value]

\* 343-372: the last three fields; the two counters default to "0" and "1"
Counters(bd, fenString, early) ==
    IF NumFields(fenString) < 4
    THEN Failed(bd, "Cannot get en passant target from FEN!")
    ELSE IF stoi(IF NumFields(fenString) < 5 THEN "0" ELSE Field(fenString, 5)).threw
    THEN Failed(HalfmoveField(bd, Field(fenString, 5), early),
                "Invalid FEN half move clock! ")
    ELSE FullmoveField(
             HalfmoveField(bd, IF NumFields(fenString) < 5 THEN "0"
                               ELSE Field(fenString, 5), early),
             IF NumFields(fenString) < 6 THEN "1" ELSE Field(fenString, 6),
             Field(fenString, 4))

\* 322-335: one castling letter of colour c grants the right when king and
\* rook are at home
CastlingLetter(bd, c, kingside) ==
    IF /\ bd.peices[56 * c + 4] = c * 8 + KING
       /\ bd.peices[56 * c + (IF kingside THEN 7 ELSE 0)] = c * 8 + ROOK
    THEN IF kingside
         THEN [bd EXCEPT !.kingsideCastlingRightsLost =
                             [x \in 0..1 |-> IF x = c THEN 0 ELSE @[x]],
                         !.zobrist = Xor(@, ZOBRIST_KINGSIDE_CASTLING_KEYS(c))]
         ELSE [bd EXCEPT !.queensideCastlingRightsLost =
                             [x \in 0..1 |-> IF x = c THEN 0 ELSE @[x]],
                         !.zobrist = Xor(@, ZOBRIST_QUEENSIDE_CASTLING_KEYS(c))]
    ELSE bd

\* 316-341: the loop over the chars of the castling field, from char i on
RECURSIVE CastlingLoop(_, _, _, _, _)
CastlingLoop(bd, castlingAvailabilty, i, fenString, early) ==
    IF i > Len(castlingAvailabilty) THEN Counters(bd, fenString, early)
    ELSE IF CharAt(castlingAvailabilty, i) \in {"K", "k", "Q", "q"}
    THEN CastlingLoop(
             CastlingLetter(bd,
                 IF CharAt(castlingAvailabilty, i) \in {"k", "q"} THEN 1 ELSE 0,
                 CharAt(castlingAvailabilty, i) \in {"K", "k"}),
             castlingAvailabilty, i + 1, fenString, early)
    ELSE Failed(bd, "Unrecognised char in FEN castling availability data!")

\* 304-342
Castling(bd, fenString, early) ==
    IF NumFields(fenString) < 3
    THEN Failed(bd, "Cannot get castling availability from FEN!")
    ELSE CastlingLoop(
             [bd EXCEPT !.kingsideCastlingRightsLost = [c \in 0..1 |-> -1],
                        !.queensideCastlingRightsLost = [c \in 0..1 |-> -1]],
             IF Field(fenString, 3) = "-" THEN "" ELSE Field(fenString, 3),
             1, fenString, early)

\* 286-302
ActiveColor(bd, fenString, early) ==
    IF NumFields(fenString) < 2
    THEN Failed(bd, "Cannot get active color from FEN!")
    ELSE IF Field(fenString, 2) = "w"
    THEN Castling([bd EXCEPT !.totalHalfmoves = 0], fenString, early)
    ELSE IF Field(fenString, 2) = "b"
    THEN Castling([bd EXCEPT !.totalHalfmoves = 1,
                             !.zobrist = Xor(@, ZOBRIST_TURN_KEY)],
                  fenString, early)
    ELSE Failed(bd, "Unrecognised charecter in FEN active color")

\* 229-283: one char of the placement field; st holds peices, kingIndex,
\* peiceIndex, the message of a throw and whether a write fell outside
\* peices[64]
PlacementChar(st, ch) ==
    IF isalpha(ch)
    THEN IF ch \notin {"P", "p", "N", "n", "B", "b", "R", "r", "Q", "q", "K", "k"}
         THEN [st EXCEPT !.what = "Unrecognised alpha char in FEN peice placement data!"]
         ELSE IF st.peiceIndex \notin Squares
         THEN [st EXCEPT !.undefined = TRUE]
         ELSE [st EXCEPT
                 !.peices[st.peiceIndex] =
                     (IF Code(ch) > 96 /\ Code(ch) < 123 THEN 8 ELSE 0)
                     + (CHOOSE k \in PAWN..KING :
                            CharAt("PNBRQK", k) = ch \/ CharAt("pnbrqk", k) = ch),
                 !.kingIndex =
                     IF ch = "K" THEN [@ EXCEPT ![0] = st.peiceIndex]
                     ELSE IF ch = "k" THEN [@ EXCEPT ![1] = st.peiceIndex]
                     ELSE @,
                 !.peiceIndex = @ + 1]
    ELSE IF isdigit(ch)
    THEN IF \E i \in 0..(Code(ch) - Code("0") - 1) : st.peiceIndex + i \notin Squares
         THEN [st EXCEPT !.undefined = TRUE]
         ELSE [st EXCEPT
                 !.peices = [j \in Squares |->
                                IF j >= st.peiceIndex
                                   /\ j < st.peiceIndex + (Code(ch) - Code("0"))
                                THEN 0 ELSE @[j]],
                 !.peiceIndex = @ + (Code(ch) - Code("0"))]
    ELSE IF ch # "/"
    THEN [st EXCEPT !.what = "Unrecognised char in FEN peice placement data!"]
    ELSE IF st.peiceIndex % 8 # 0
    THEN [st EXCEPT !.what = "Arithmetic error in FEN peice placement data!"]
    ELSE [st EXCEPT !.peiceIndex = @ - 16]

\* 228-284: the loop over the chars of the placement field, from char i on
RECURSIVE PlacementLoop(_, _, _)
PlacementLoop(st, peicePlacementData, i) ==
    IF i > Len(peicePlacementData) \/ st.what # "" \/ st.undefined THEN st
    ELSE PlacementLoop(PlacementChar(st, CharAt(peicePlacementData, i)),
                       peicePlacementData, i + 1)

\* 225-286: after the placement loop
AfterPlacement(bd, st, fenString, early) ==
    IF st.undefined THEN Undefined(bd)
    ELSE IF st.what # ""
    THEN Failed([bd EXCEPT !.peices = st.peices, !.kingIndex = st.kingIndex], st.what)
    ELSE ActiveColor([bd EXCEPT !.peices = st.peices, !.kingIndex = st.kingIndex],
                     fenString, early)

\* 207-398
initializeFen(bd, fenString, early) ==
    IF NumFields(fenString) < 1
    THEN Failed([bd EXCEPT !.zobrist = {},
                           !.numPeices = [x \in 0..14 |-> 0],
                           !.numTotalPeices = [c \in 0..1 |-> 0]],
                "Cannot get peice placement from FEN!")
    ELSE AfterPlacement(
             [bd EXCEPT !.zobrist = {},
                        !.numPeices = [x \in 0..14 |-> 0],
                        !.numTotalPeices = [c \in 0..1 |-> 0]],
             PlacementLoop([peices |-> bd.peices, kingIndex |-> bd.kingIndex,
                            peiceIndex |-> 56, what |-> "", undefined |-> FALSE],
                           Field(fenString, 1), 1),
             fenString, early)

(***************************************************************************)
(* The state machine: the members of the board, and the consumer of §6     *)
(* that asks for the legal moves, applies one of them and takes moves      *)
(* back.                                                                   *)
(***************************************************************************)
VARIABLES
    peices, kingsideCastlingRightsLost, queensideCastlingRightsLost,
    eligibleEnPassantSquare, halfmovesSincePawnMoveOrCapture, hmspmocIndex,
    totalHalfmoves, kingIndex, positionHistory, zobrist, numPeices,
    numTotalPeices,
    currentLegalMoves,  \* the vector the last legalMoves() returned
    lastOp,             \* the last call: "initializeFen", "legalMoves",
                        \* "makeMove" or "unmakeMove"
    played,             \* the moves the consumer applied and did not take back
    seen,               \* the position after initializeFen and after each move of `played`
    falseReturns,       \* trial makeMove calls that returned 0 so far
    unmakes,            \* unmakeMove calls of the consumer so far
    io                  \* the arguments and the result of the last call, when
                        \* it was one of initializeFen, asFEN, a notation
                        \* function or ==

vars == << peices, kingsideCastlingRightsLost, queensideCastlingRightsLost,
           eligibleEnPassantSquare, halfmovesSincePawnMoveOrCapture, hmspmocIndex,
           totalHalfmoves, kingIndex, positionHistory, zobrist, numPeices,
           numTotalPeices, currentLegalMoves, lastOp, played, seen,
           falseReturns, unmakes, io >>

\* no such call yet
NoCall == [op |-> "none"]

\* the board members as one value
Board ==
    [peices |-> peices,
     zobrist |-> zobrist,
     numPeices |-> numPeices,
     numTotalPeices |-> numTotalPeices,
     kingIndex |-> kingIndex,
     totalHalfmoves |-> totalHalfmoves,
     hmspmocIndex |-> hmspmocIndex,
     halfmovesSincePawnMoveOrCapture |-> halfmovesSincePawnMoveOrCapture,
     eligibleEnPassantSquare |-> eligibleEnPassantSquare,
     kingsideCastlingRightsLost |-> kingsideCastlingRightsLost,
     queensideCastlingRightsLost |-> queensideCastlingRightsLost,
     positionHistory |-> positionHistory]

\* the members take the values of board value bd
SetBoard(bd) ==
    /\ peices' = bd.peices
    /\ zobrist' = bd.zobrist
    /\ numPeices' = bd.numPeices
    /\ numTotalPeices' = bd.numTotalPeices
    /\ kingIndex' = bd.kingIndex
    /\ totalHalfmoves' = bd.totalHalfmoves
    /\ hmspmocIndex' = bd.hmspmocIndex
    /\ halfmovesSincePawnMoveOrCapture' = bd.halfmovesSincePawnMoveOrCapture
    /\ eligibleEnPassantSquare' = bd.eligibleEnPassantSquare
    /\ kingsideCastlingRightsLost' = bd.kingsideCastlingRightsLost
    /\ queensideCastlingRightsLost' = bd.queensideCastlingRightsLost
    /\ positionHistory' = bd.positionHistory

\* what identifies a position for repetition: placement, side to move,
\* castling rights held, en passant square
PositionOf(bd) ==
    << bd.peices, bd.totalHalfmoves % 2,
       [c \in 0..1 |-> bd.kingsideCastlingRightsLost[c] = 0],
       [c \in 0..1 |-> bd.queensideCastlingRightsLost[c] = 0],
       bd.eligibleEnPassantSquare[bd.totalHalfmoves] >>

\* the games the consumer plays once the first FreePly plies are over, as
\* <<start, target, promotion>> triples
Lines ==
    << \* g1f3 g8f6 f3g1 f6g8 g1f3 g8f6 f3g1 f6g8
       << <<6, 21, 0>>, <<62, 45, 0>>, <<21, 6, 0>>, <<45, 62, 0>>,
          <<6, 21, 0>>, <<62, 45, 0>>, <<21, 6, 0>>, <<45, 62, 0>> >>,
       \* e2e4 e7e5 f1c4 b8c6 d1h5 g8f6 h5f7
       << <<12, 28, 0>>, <<52, 36, 0>>, <<5, 26, 0>>, <<57, 42, 0>>,
          <<3, 39, 0>>, <<62, 45, 0>>, <<39, 53, 0>> >>,
       \* e2e4 e7e5 g1f3 g8f6 f1e2 f8e7 e1g1 e8g8
       << <<12, 28, 0>>, <<52, 36, 0>>, <<6, 21, 0>>, <<62, 45, 0>>,
          <<5, 12, 0>>, <<61, 52, 0>>, <<4, 6, 0>>, <<60, 62, 0>> >>,
       \* e2e4 a7a6 e4e5 d7d5 e5d6 c7d6
       << <<12, 28, 0>>, <<48, 40, 0>>, <<28, 36, 0>>, <<51, 35, 0>>,
          <<36, 43, 0>>, <<50, 43, 0>> >>,
       \* e2e4 e7e5 f1b5 d7d6 b5e8
       << <<12, 28, 0>>, <<52, 36, 0>>, <<5, 33, 0>>, <<51, 43, 0>>,
          <<33, 60, 0>> >>,
       \* e2e4 d7d5 e4d5 d8d5 d1e2 d5e5 e2e5
       << <<12, 28, 0>>, <<51, 35, 0>>, <<28, 35, 0>>, <<59, 35, 0>>,
          <<3, 12, 0>>, <<35, 36, 0>>, <<12, 36, 0>> >>,
       \* e2e4 f7f6 d1h5 g7g6 h5g6 h7g6
       << <<12, 28, 0>>, <<53, 45, 0>>, <<3, 39, 0>>, <<54, 46, 0>>,
          <<39, 46, 0>>, <<55, 46, 0>> >>,
       \* h2h4 g7g5 h4g5 h7h6 g5h6 a7a6 h6h7 a6a5 h7g8q
       << <<15, 31, 0>>, <<54, 38, 0>>, <<31, 38, 0>>, <<55, 47, 0>>,
          <<38, 47, 0>>, <<48, 40, 0>>, <<47, 55, 0>>, <<40, 32, 0>>,
          <<55, 62, 5>> >>,
       \* b2b3 g7g6 c1b2 h7h5 b2h8
       << <<9, 17, 0>>, <<54, 46, 0>>, <<2, 9, 0>>, <<55, 39, 0>>,
          <<9, 63, 0>> >> >>

Triple(m) == << m.start, m.target, promotion(m) >>

\* may the consumer apply m after the moves of `played`
Allowed(m) ==
    \/ Len(played) < FreePly
    \/ \E k \in 1..Len(Lines) :
           /\ Len(Lines[k]) > Len(played)
           /\ \A i \in 1..Len(played) : Lines[k][i] = Triple(played[i])
           /\ Lines[k][Len(played) + 1] = Triple(m)

Init ==
    \E r \in {legalMoves(StartBoard, {})} :
        /\ peices = r.board.peices
        /\ zobrist = r.board.zobrist
        /\ numPeices = r.board.numPeices
        /\ numTotalPeices = r.board.numTotalPeices
        /\ kingIndex = r.board.kingIndex
        /\ totalHalfmoves = r.board.totalHalfmoves
        /\ hmspmocIndex = r.board.hmspmocIndex
        /\ halfmovesSincePawnMoveOrCapture = r.board.halfmovesSincePawnMoveOrCapture
        /\ eligibleEnPassantSquare = r.board.eligibleEnPassantSquare
        /\ kingsideCastlingRightsLost = r.board.kingsideCastlingRightsLost
        /\ queensideCastlingRightsLost = r.board.queensideCastlingRightsLost
        /\ positionHistory = r.board.positionHistory
        /\ currentLegalMoves = r.moves
        /\ lastOp = "initializeFen"
        /\ played = <<>>
        /\ seen = << PositionOf(r.board) >>
        /\ falseReturns = 0
        /\ unmakes = 0
        /\ io = NoCall

\* the consumer calls legalMoves(); the trial calls of makeMove at the
\* positions of falseAt return 0.  A call that reads outside peices[] is
\* left out.
LegalMoves ==
    /\ lastOp \in {"makeMove", "unmakeMove"}
    /\ legalMovesPawnReads(Board) \subseteq Squares
    /\ \E cands \in {Candidates(Board)} :
         \E falseAt \in SubsetsUpTo(TrialPositions(cands),
                                    MaxFalseReturns - falseReturns) :
           /\ falseReturns + Cardinality(falseAt) <= MaxFalseReturns
           /\ \E r \in {FilterMoves(Board, cands, falseAt)} :
                /\ SetBoard(r.board)
                /\ currentLegalMoves' = r.moves
           /\ falseReturns' = falseReturns + Cardinality(falseAt)
    /\ lastOp' = "legalMoves"
    /\ UNCHANGED << played, seen, unmakes, io >>

\* the consumer applies a move of the vector legalMoves() returned
MakeMove ==
    /\ lastOp \in {"initializeFen", "legalMoves"}
    /\ Len(played) < MaxPly
    /\ \E i \in 1..Len(currentLegalMoves) :
         /\ Allowed(currentLegalMoves[i])
         /\ \E bd \in {makeMove(Board, currentLegalMoves[i])} :
              /\ SetBoard(bd)
              /\ seen' = Append(seen, PositionOf(bd))
         /\ played' = Append(played, currentLegalMoves[i])
    /\ lastOp' = "makeMove"
    /\ UNCHANGED << currentLegalMoves, falseReturns, unmakes, io >>

\* the consumer takes back the move it applied last
UnmakeMove ==
    /\ played # <<>>
    /\ unmakes < MaxUnmakes
    /\ SetBoard(unmakeMove(Board, played[Len(played)]))
    /\ played' = SubSeq(played, 1, Len(played) - 1)
    /\ seen' = SubSeq(seen, 1, Len(seen) - 1)
    /\ unmakes' = unmakes + 1
    /\ lastOp' = "unmakeMove"
    /\ UNCHANGED << currentLegalMoves, falseReturns, io >>

Next == LegalMoves \/ MakeMove \/ UnmakeMove

Spec == Init /\ [][Next]_vars

(***************************************************************************)
(* Counting move sequences (the perft of §8): the consumer's loop          *)
(* `legalMoves(); makeMove(m)` repeated n times, every trial makeMove of   *)
(* isLegal returning the same value `ret`.                                 *)
(***************************************************************************)
\* f[lo] + ... + f[hi]
RECURSIVE SumRange(_, _, _)
SumRange(f, lo, hi) ==
    IF lo > hi THEN 0
    ELSE IF lo = hi THEN f[lo]
    ELSE SumRange(f, lo, (lo + hi) \div 2) + SumRange(f, ((lo + hi) \div 2) + 1, hi)

\* legalMoves() with every trial makeMove returning ret
legalMovesUniform(bd, ret) ==
    LET cands == Candidates(bd)
    IN  FilterMoves(bd, cands, IF ret THEN {} ELSE TrialPositions(cands))

RECURSIVE Perft(_, _, _)
Perft(bd, n, ret) ==
    LET r == legalMovesUniform(bd, ret)
    IN  IF n = 0 THEN 1
        ELSE IF n = 1 THEN Len(r.moves)
        ELSE SumRange([i \in 1..Len(r.moves) |->
                          Perft(makeMove(r.board, r.moves[i]), n - 1, ret)],
                      1, Len(r.moves))

(***************************************************************************)
(* A long quiet game from the standard start position: the two sides move  *)
(* their king's knights out and back (g1f3 g8f6 f3g1 f6g8 ...), and in the  *)
(* first moves White may push the a-pawn (a2a3) instead.                    *)
(***************************************************************************)
\* may the consumer apply m in the long game
ShuffleAllowed(m) ==
    \/ /\ Kind(m.moving) = KNIGHT
       /\ m.captured = 0
       /\ {m.start, m.target} \in {{6, 21}, {62, 45}}
    \/ /\ Len(played) < 3
       /\ m.start = 8
       /\ m.target = 16

\* the consumer applies a move of the long game
ShuffleMove ==
    /\ lastOp \in {"initializeFen", "legalMoves"}
    /\ Len(played) < LongPly
    /\ \E i \in 1..Len(currentLegalMoves) :
         /\ ShuffleAllowed(currentLegalMoves[i])
         /\ \E bd \in {makeMove(Board, currentLegalMoves[i])} :
              /\ SetBoard(bd)
              /\ seen' = Append(seen, PositionOf(bd))
         /\ played' = Append(played, currentLegalMoves[i])
    /\ lastOp' = "makeMove"
    /\ UNCHANGED << currentLegalMoves, falseReturns, unmakes, io >>

LongNext == LegalMoves \/ ShuffleMove

LongSpec == Init /\ [][LongNext]_vars

(***************************************************************************)
(* The two square-notation functions called on their own: strings of up to *)
(* two chars over the files, the ranks and the chars next to them, longer  *)
(* strings over a few chars, and the indices around 0..63.                 *)
(***************************************************************************)
\* everything but io
engineVars ==
    << peices, kingsideCastlingRightsLost, queensideCastlingRightsLost,
       eligibleEnPassantSquare, halfmovesSincePawnMoveOrCapture, hmspmocIndex,
       totalHalfmoves, kingIndex, positionHistory, zobrist, numPeices,
       numTotalPeices, currentLegalMoves, lastOp, played, seen,
       falseReturns, unmakes >>

\* the strings of n chars of the set chars
RECURSIVE Strings(_, _)
Strings(chars, n) ==
    IF n = 0 THEN {""}
    ELSE {s \o ch : s \in Strings(chars, n - 1), ch \in chars}

NotationChars ==
    {CharAt(Ascii, i) : i \in (Code("~") - 42)..(Code("i") - 42)}
    \cup {CharAt(Ascii, i) : i \in (Code("0") - 42)..(Code("9") - 42)}

NotationStrings ==
    UNION {Strings(NotationChars, n) : n \in 0..2}
    \cup UNION {Strings({"a", "h", "1", "8"}, n) : n \in 3..MaxStrLen}

AlgebraicNotationToBoardIndex ==
    /\ \E algebraic \in NotationStrings :
           io' = [op |-> "algebraicNotationToBoardIndex",
                  arg |-> algebraic,
                  result |-> algebraicNotationToBoardIndex(algebraic)]
    /\ UNCHANGED engineVars

BoardIndexToAlgebraicNotation ==
    /\ \E boardIndex \in (0 - IndexMargin)..(63 + IndexMargin) :
           io' = [op |-> "boardIndexToAlgebraicNotation",
                  arg |-> boardIndex,
                  result |-> boardIndexToAlgebraicNotation(boardIndex)]
    /\ UNCHANGED engineVars

NotationNext == AlgebraicNotationToBoardIndex \/ BoardIndexToAlgebraicNotation

NotationSpec == Init /\ [][NotationNext]_vars

(***************************************************************************)
(* Move::operator== (DrawableBoard.hpp 111-117) called on two Move objects *)
(* constructed on the board: three start/target pairs, and flags with and  *)
(* without a promotion kind and the LEGAL, EN_PASSANT and CASTLE bits.     *)
(***************************************************************************)
\* x & y of two non-negative ints
RECURSIVE BitAnd(_, _)
BitAnd(x, y) ==
    IF x = 0 \/ y = 0 THEN 0
    ELSE (x % 2) * (y % 2) + 2 * BitAnd(x \div 2, y \div 2)

\* 112-117: == binds tighter than &, so the third operand of && is
\* `this->flags & (PROMOTION == other.flags) & PROMOTION`
MoveEquals(this, other) ==
    /\ this.start = other.start
    /\ this.target = other.target
    /\ BitAnd(BitAnd(this.flags, IF PROMOTION = other.flags THEN 1 ELSE 0),
              PROMOTION) # 0

EqualsFlags ==
    {NONE, KNIGHT, QUEEN, PROMOTION, LEGAL, LEGAL + QUEEN, EN_PASSANT, CASTLE}

EqualsMoves ==
    {NewMove(Board, st[1], st[2], flags) :
        st \in {<<12, 28>>, <<12, 20>>, <<11, 27>>}, flags \in EqualsFlags}

OperatorEquals ==
    /\ \E a \in EqualsMoves, b \in EqualsMoves :
           io' = [op |-> "operator==", a |-> a, b |-> b, result |-> MoveEquals(a, b)]
    /\ UNCHANGED engineVars

EqualsNext == OperatorEquals

EqualsSpec == Init /\ [][EqualsNext]_vars

(***************************************************************************)
(* Loading positions: the consumer calls initializeFen once on a string,   *)
(* well-formed or not, then asks for the string of the position, applies   *)
(* moves and asks for the legal moves.                                     *)
(***************************************************************************)
FenInputs ==
    {"rnbqkbnr/pppppppp/8/8/8/8/PPPPPPPP/RNBQKBNR w KQkq - 0 1",
     "rnbqkbnr/pppppppp/8/8/4P3/8/PPPP1PPP/RNBQKBNR b KQkq e3 0 1",
     "4k3/8/8/8/8/8/8/4K3 w - - 0 1",
     "4k3/8/8/8/8/8/8/4K3 b - - 30 40",
     "4k3/8/8/8/8/8/8/4K3 w - - 0 251",
     "7k/8/8/8/8/8/1q6/K7 w - - 0 1",
     "7k/5K2/6Q1/8/8/8/8/8 b - - 0 1",
     "4K3/8/8/8/8/8/P7/7k w - - 0 1",
     \* checks: by knight and rook, by a rook, by a pawn that just moved two squares
     "4k3/8/3N4/8/8/8/8/4RK2 b - - 0 1",
     "4r2k/8/8/b7/8/8/3B4/4K3 w - - 0 1",
     "7k/8/8/1Pp5/3K4/8/8/8 w - c6 0 1",
     \* castling: a crossed square attacked by a bishop, a landing square
     \* attacked by a pawn, only the rook's path attacked, a landing square
     \* attacked by a knight, by the king
     "4k3/8/8/8/8/8/6b1/4K2R b K - 0 1",
     "4k3/8/8/8/8/8/7p/4K2R w K - 0 1",
     "4k3/8/8/8/8/8/p7/R3K3 w Q - 0 1",
     "4k2r/8/7N/8/8/8/8/4K3 b k - 0 1",
     "r3k3/1K6/8/8/8/8/8/8 b q - 0 1",
     \* counters absent
     "4k3/8/8/8/8/8/8/4K3 w - -",
     "4k3/8/8/8/8/8/8/4K3 w - - 7",
     "4k3/8/8/8/8/8/8/4K3 w - - ",
     \* counters that are no non-negative integers
     "4k3/8/8/8/8/8/8/4K3 w - - -5 1",
     "4k3/8/8/8/8/8/8/4K3 w - - 12abc 1",
     "4k3/8/8/8/8/8/8/4K3 w - - abc 1",
     "4k3/8/8/8/8/8/8/4K3 w - -  1",
     "4k3/8/8/8/8/8/8/4K3 w - - 0 3x",
     "4k3/8/8/8/8/8/8/4K3 w - - 0 x",
     "4k3/8/8/8/8/8/8/4K3 w - - 0 +2",
     \* ranks that do not sum to 8
     "4k3/8/8/8/8/8/8/4K2 w - - 0 1",
     "4k3/8/8/8/8/8/8/4K4 w - - 0 1",
     "4k3/7/8/8/8/8/8/4K3 w - - 0 1",
     "4k3/9/8/8/8/8/8/4K3 w - - 0 1",
     "8/88/4k3/8/8/8/8/4K3/8 w - - 0 1",
     \* other malformed fields
     "4k3/8/8/8/8/8/8/4X3 w - - 0 1",
     "4k3/8/8/8/8/8/8/4K3 x - - 0 1",
     "4k3/8/8/8/8/8/8/4K3 w KX - 0 1",
     "4k3/8/8/8/8/8/8/4K3 w - e9 0 1",
     "4k3/8/8/8/8/8/8/4K3 w -",
     "4k3/8/8/8/8/8/8/4K3",
     ""}

\* the consumer calls initializeFen(fenString); a call that writes outside
\* an array, or whose legalMoves() reads outside peices[], is left out.  When the call returns, its last statement has
\* stored legalMoves(), whose trial makeMove calls at falseAt returned 0.
InitializeFen ==
    /\ lastOp = "initializeFen"
    /\ played = <<>>
    /\ io.op = "none"
    /\ \E fenString \in FenInputs, early \in BOOLEAN :
         \E r \in {initializeFen(Board, fenString, early)} :
           /\ ~r.undefined
           /\ r.what = "" => legalMovesPawnReads(r.board) \subseteq Squares
           /\ io' = [op |-> "initializeFen", arg |-> fenString, what |-> r.what,
                     before |-> Board]
           /\ IF r.what # ""
              THEN /\ SetBoard(r.board)
                   /\ lastOp' = "throw"
                   /\ UNCHANGED << currentLegalMoves, falseReturns, seen >>
              ELSE /\ \E cands \in {Candidates(r.board)} :
                        \E falseAt \in SubsetsUpTo(TrialPositions(cands),
                                    MaxFalseReturns - falseReturns) :
                          /\ falseReturns + Cardinality(falseAt) <= MaxFalseReturns
                          /\ \E g \in {FilterMoves(r.board, cands, falseAt)} :
                               /\ SetBoard(g.board)
                               /\ currentLegalMoves' = g.moves
                               /\ seen' = << PositionOf(g.board) >>
                          /\ falseReturns' = falseReturns + Cardinality(falseAt)
                   /\ lastOp' = "initializeFen"
    /\ UNCHANGED << played, unmakes >>

\* the consumer calls asFEN(); with hmspmocIndex 0 the call would read
\* halfmovesSincePawnMoveOrCapture[-1]
AsFEN ==
    /\ hmspmocIndex >= 1
    /\ io.op # "asFEN"
    /\ io' = [op |-> "asFEN", result |-> asFEN(Board)]
    /\ UNCHANGED engineVars

\* the consumer applies a move of the vector legalMoves() returned
FenMakeMove ==
    /\ lastOp \in {"initializeFen", "legalMoves"}
    /\ Len(played) < FenPly
    /\ \E i \in 1..Len(currentLegalMoves) :
         /\ \E bd \in {makeMove(Board, currentLegalMoves[i])} :
              /\ SetBoard(bd)
              /\ seen' = Append(seen, PositionOf(bd))
         /\ played' = Append(played, currentLegalMoves[i])
    /\ lastOp' = "makeMove"
    /\ io' = NoCall
    /\ UNCHANGED << currentLegalMoves, falseReturns, unmakes >>

FenNext == InitializeFen \/ AsFEN \/ FenMakeMove \/ LegalMoves

FenSpec == Init /\ [][FenNext]_vars

(***************************************************************************)
(* Properties.                                                             *)
(***************************************************************************)
\* the consumer holds the vector legalMoves() returned for the board as it is
AtGenerated == lastOp \in {"initializeFen", "legalMoves"}

\* every trial makeMove of isLegal so far returned nonzero
NoFalseReturn == falseReturns = 0

\* the members the reversal has to restore: placement, hash, the four
\* castling-rights-lost values, king squares, counts, ply, the en passant
\* square of the current ply, the halfmove-clock stack index and its top
Restorable(bd) ==
    << bd.peices, bd.zobrist,
       bd.kingsideCastlingRightsLost, bd.queensideCastlingRightsLost,
       bd.kingIndex, bd.numPeices, bd.numTotalPeices, bd.totalHalfmoves,
       bd.eligibleEnPassantSquare[bd.totalHalfmoves],
       bd.hmspmocIndex, HalfmoveClock(bd) >>

\* makeMove(m) followed by unmakeMove(m) on board bd gives bd back
RoundTrip(bd, m) == Restorable(unmakeMove(makeMove(bd, m), m)) = Restorable(bd)

\* C1: in every reachable state, for every move m of the vector legalMoves()
\* returned, makeMove(m) followed by unmakeMove(m) restores the placement,
\* the hash, the castling rights, the king squares, the counts, the ply, the
\* en passant square of the ply and the halfmove-clock stack.
C1_MakeUnmakeRestores ==
    AtGenerated =>
        \A i \in 1..Len(currentLegalMoves) : RoundTrip(Board, currentLegalMoves[i])

\* the same when no trial call of isLegal has returned zero so far
RestoresAfterTrueReturns ==
    (AtGenerated /\ NoFalseReturn) =>
        \A i \in 1..Len(currentLegalMoves) : RoundTrip(Board, currentLegalMoves[i])

\* the king of the side that makes m is attacked once m is made on bd
LeavesOwnKingAttacked(bd, m) == inCheck(makeMove(bd, m), m.moving \div 8)

\* the moves of the vector that leave the mover's own king attacked
UnsoundMoves ==
    {i \in 1..Len(currentLegalMoves) :
        LeavesOwnKingAttacked(Board, currentLegalMoves[i])}

\* C2: in every reachable position no move of the vector legalMoves()
\* returned leaves the king of the side that makes it attacked (stated for
\* the runs in which every trial makeMove of isLegal returned nonzero, the
\* outcome in which isLegal keeps every move it tries).
C2_GeneratedMovesAreSound ==
    (AtGenerated /\ NoFalseReturn) => UnsoundMoves = {}

(***************************************************************************)
(* The rules of chess, written from the rules and not from the generator:  *)
(* the reference the generated vector is compared with.  A position is    *)
(* [p, c, ks, qs, ep]: placement, side to move (0 white, 1 black), the     *)
(* castling rights held, the en passant square or -1.  A move is the       *)
(* triple <<start, target, promotion kind or 0>>.                          *)
(***************************************************************************)
File(s) == s % 8
Rank(s) == s \div 8
Abs(x) == IF x < 0 THEN -x ELSE x
Sign(x) == IF x < 0 THEN -1 ELSE IF x > 0 THEN 1 ELSE 0
At(f, r) == 8 * r + f

\* a and b lie on one rank, file or diagonal
Aligned(a, b) ==
    /\ a # b
    /\ \/ File(a) = File(b) \/ Rank(a) = Rank(b)
       \/ Abs(File(a) - File(b)) = Abs(Rank(a) - Rank(b))

Straight(a, b) == a # b /\ (File(a) = File(b) \/ Rank(a) = Rank(b))
Diagonal(a, b) == a # b /\ Abs(File(a) - File(b)) = Abs(Rank(a) - Rank(b))

\* the squares strictly between two aligned squares
Between(a, b) ==
    LET n == IF File(a) = File(b) THEN Abs(Rank(a) - Rank(b))
                                  ELSE Abs(File(a) - File(b))
    IN  {At(File(a) + k * Sign(File(b) - File(a)),
            Rank(a) + k * Sign(Rank(b) - Rank(a))) : k \in 1..(n - 1)}

ClearBetween(p, a, b) == \A x \in Between(a, b) : p[x] = 0

\* does the peice on s attack square t
Attacks(p, s, t) ==
    LET k == Kind(p[s])
        c == ColorBit(p[s])
        df == Abs(File(t) - File(s))
        dr == Rank(t) - Rank(s)
    IN  /\ p[s] # 0 /\ s # t
        /\ CASE k = PAWN -> df = 1 /\ dr = (IF c = 0 THEN 1 ELSE -1)
             [] k = KNIGHT -> {df, Abs(dr)} = {1, 2}
             [] k = KING -> df <= 1 /\ Abs(dr) <= 1
             [] k = ROOK -> Straight(s, t) /\ ClearBetween(p, s, t)
             [] k = BISHOP -> Diagonal(s, t) /\ ClearBetween(p, s, t)
             [] k = QUEEN -> Aligned(s, t) /\ ClearBetween(p, s, t)
             [] OTHER -> FALSE

\* is square t attacked by a peice of colour c
RefAttacked(p, t, c) ==
    \E s \in Squares : p[s] # 0 /\ ColorBit(p[s]) = c /\ Attacks(p, s, t)

\* is a king of colour c attacked
RefInCheck(p, c) ==
    \E k \in Squares : p[k] = c * 8 + KING /\ RefAttacked(p, k, 1 - c)

\* the position a board value stands for
RefPosition(bd) ==
    [p  |-> bd.peices,
     c  |-> bd.totalHalfmoves % 2,
     ks |-> [c \in 0..1 |-> bd.kingsideCastlingRightsLost[c] = 0],
     qs |-> [c \in 0..1 |-> bd.queensideCastlingRightsLost[c] = 0],
     ep |-> bd.eligibleEnPassantSquare[bd.totalHalfmoves]]

\* the promotion kinds of a pawn move to t
RefPromotions(t) == IF Rank(t) \in {0, 7} THEN {KNIGHT, BISHOP, ROOK, QUEEN} ELSE {0}

\* pawn moves from s
RefPawnMoves(pos, s) ==
    LET p == pos.p
        up == IF pos.c = 0 THEN 1 ELSE -1
        home == IF pos.c = 0 THEN 1 ELSE 6
        one == s + 8 * up
        two == s + 16 * up
        pushes == (IF p[one] = 0 THEN {one} ELSE {})
                  \cup (IF Rank(s) = home /\ p[one] = 0 /\ p[two] = 0
                           THEN {two} ELSE {})
        takes == {t \in Squares :
                     /\ Rank(t) = Rank(s) + up /\ Abs(File(t) - File(s)) = 1
                     /\ \/ p[t] # 0 /\ ColorBit(p[t]) = 1 - pos.c
                        \/ t = pos.ep}
    IN  UNION {{<<s, t, k>> : k \in RefPromotions(t)} : t \in pushes \cup takes}

\* knight, bishop, rook, queen and king moves from s: to an attacked square
\* that holds no peice of the mover
RefPeiceMoves(pos, s) ==
    {<<s, t, 0>> : t \in {x \in Squares :
        /\ Attacks(pos.p, s, x)
        /\ (pos.p[x] = 0 \/ ColorBit(pos.p[x]) = 1 - pos.c)}}

\* castling: right held, king and rook at home, the squares between them
\* empty, the king not in check and not crossing or reaching an attacked square
RefCastlingMoves(pos) ==
    LET p == pos.p
        c == pos.c
        k == 56 * c + 4
        safe(S) == \A x \in S : ~RefAttacked(p, x, 1 - c)
    IN  (IF /\ pos.ks[c] /\ p[k] = c * 8 + KING /\ p[k + 3] = c * 8 + ROOK
            /\ p[k + 1] = 0 /\ p[k + 2] = 0
            /\ safe({k, k + 1, k + 2})
            THEN {<<k, k + 2, 0>>} ELSE {})
        \cup (IF /\ pos.qs[c] /\ p[k] = c * 8 + KING /\ p[k - 4] = c * 8 + ROOK
                 /\ p[k - 1] = 0 /\ p[k - 2] = 0 /\ p[k - 3] = 0
                 /\ safe({k, k - 1, k - 2})
                 THEN {<<k, k - 2, 0>>} ELSE {})

\* the placement after move t, castling and en passant told by `castle`, `ep`
RefApply(pos, t, castle) ==
    LET p == pos.p
        s == t[1]
        d == t[2]
        enPassant == Kind(p[s]) = PAWN /\ d = pos.ep /\ File(s) # File(d)
        placed == IF t[3] # 0 THEN pos.c * 8 + t[3] ELSE p[s]
    IN  [x \in Squares |->
            IF x = s THEN 0
            ELSE IF x = d THEN placed
            ELSE IF enPassant /\ x = At(File(d), Rank(s)) THEN 0
            ELSE IF castle /\ x = (IF d > s THEN s + 3 ELSE s - 4) THEN 0
            ELSE IF castle /\ x = (IF d > s THEN s + 1 ELSE s - 1)
                    THEN pos.c * 8 + ROOK
            ELSE p[x]]

\* the pseudo-legal moves that are not castling
RefPseudoLegal(pos) ==
    UNION {IF Kind(pos.p[s]) = PAWN THEN RefPawnMoves(pos, s)
                                    ELSE RefPeiceMoves(pos, s) :
           s \in {x \in Squares : pos.p[x] # 0 /\ ColorBit(pos.p[x]) = pos.c}}

\* the legal moves of the position
RefLegalMoves(pos) ==
    {t \in RefPseudoLegal(pos) : ~RefInCheck(RefApply(pos, t, FALSE), pos.c)}
    \cup RefCastlingMoves(pos)

\* the vector legalMoves() returned, as a set of triples
GeneratedTriples == {Triple(currentLegalMoves[i]) : i \in 1..Len(currentLegalMoves)}

\* C3: in every reachable position the vector legalMoves() returned holds
\* every pseudo-legal move that leaves the mover's king unattacked, and with
\* soundness it is the reference legal-move set (stated for the runs in which
\* every trial makeMove of isLegal returned nonzero).
C3_GeneratedMovesAreTheLegalMoves ==
    (AtGenerated /\ NoFalseReturn) => GeneratedTriples = RefLegalMoves(RefPosition(Board))

\* the completeness half alone holds in those runs
CompleteAfterTrueReturns ==
    (AtGenerated /\ NoFalseReturn) =>
        RefLegalMoves(RefPosition(Board)) \subseteq GeneratedTriples

(***************************************************************************)
(* The derived members against the placement.                              *)
(***************************************************************************)
\* the hash of board bd computed from scratch: the peice key of every
\* occupied square, the turn key iff black is to move, the castling keys of
\* the rights still held
ScratchHash(bd) ==
    {ZOBRIST_PEICE_KEYS(ColorBit(bd.peices[i]), Kind(bd.peices[i]) - 1, i) :
        i \in {j \in Squares : bd.peices[j] # 0}}
    \cup (IF bd.totalHalfmoves % 2 = 1 THEN {ZOBRIST_TURN_KEY} ELSE {})
    \cup {ZOBRIST_KINGSIDE_CASTLING_KEYS(c) :
             c \in {x \in 0..1 : bd.kingsideCastlingRightsLost[x] = 0}}
    \cup {ZOBRIST_QUEENSIDE_CASTLING_KEYS(c) :
             c \in {x \in 0..1 : bd.queensideCastlingRightsLost[x] = 0}}

\* the board is as initializeFen, makeMove or unmakeMove left it
AfterBoardCall == lastOp \in {"initializeFen", "makeMove", "unmakeMove"}

\* C4: after initializeFen and after every makeMove and unmakeMove with
\* generated moves, zobrist is the hash computed from scratch for the state.
C4_ZobristIsScratchHash == AfterBoardCall => zobrist = ScratchHash(Board)

\* the same holds while no trial call of isLegal has returned zero
ScratchHashAfterTrueReturns ==
    (AfterBoardCall /\ NoFalseReturn) => zobrist = ScratchHash(Board)

\* C5: from the start position the move sequences of length 1, 2, 3 and 4
\* that legalMoves() and makeMove produce number 20, 400, 8902 and 197281
\* (counted with every trial makeMove of isLegal returning nonzero).
C5_PerftCounts ==
    lastOp = "initializeFen" =>
        /\ Perft(Board, 1, TRUE) = 20
        /\ Perft(Board, 2, TRUE) = 400
        /\ Perft(Board, 3, TRUE) = 8902
        /\ Perft(Board, 4, TRUE) = 197281

\* the number of kings of colour c on the board
KingCount(c) == Cardinality({i \in Squares : peices[i] = c * 8 + KING})

\* C6: every reachable state holds exactly one white and one black king
\* (stated for the runs in which every trial makeMove returned nonzero).
C6_OneKingEach == NoFalseReturn => \A c \in 0..1 : KingCount(c) = 1

\* C7: after initializeFen, makeMove and unmakeMove, kingIndex[c] is the
\* square that holds the king of colour c (stated for the runs in which
\* every trial makeMove returned nonzero).
C7_KingIndexIsKingSquare ==
    (AfterBoardCall /\ NoFalseReturn) =>
        \A c \in 0..1 : peices[kingIndex[c]] = c * 8 + KING

\* the peice values
PeiceValues == {c * 8 + k : c \in 0..1, k \in PAWN..KING}

\* numPeices and numTotalPeices are the census of peices
CensusAgrees ==
    /\ \A x \in PeiceValues : numPeices[x] = Cardinality({i \in Squares : peices[i] = x})
    /\ \A c \in 0..1 :
           numTotalPeices[c] =
               Cardinality({i \in Squares : peices[i] # 0 /\ ColorBit(peices[i]) = c})

\* C8: after initializeFen, makeMove and unmakeMove, numPeices[p] is the
\* number of squares holding p and numTotalPeices[c] the number of squares
\* holding a peice of colour c.
C8_CountsAreCensus == AfterBoardCall => CensusAgrees

\* the same holds while no trial call of isLegal has returned zero
CensusAfterTrueReturns == (AfterBoardCall /\ NoFalseReturn) => CensusAgrees

(***************************************************************************)
(* Pins.                                                                   *)
(***************************************************************************)
\* the enemy peice on a is a slider that moves along the line from a to k
SlidesAlong(p, a, k) ==
    \/ Kind(p[a]) = QUEEN /\ Aligned(a, k)
    \/ Kind(p[a]) = ROOK /\ Straight(a, k)
    \/ Kind(p[a]) = BISHOP /\ Diagonal(a, k)

\* the squares a of the enemy sliders that pin the peice on s to the king of
\* the side to move: s is the only occupied square between king and slider
Pinners(pos, s) ==
    {a \in Squares :
        /\ pos.p[a] # 0 /\ ColorBit(pos.p[a]) = 1 - pos.c
        /\ \E k \in Squares :
              /\ pos.p[k] = pos.c * 8 + KING
              /\ SlidesAlong(pos.p, a, k)
              /\ s \in Between(k, a)
              /\ \A x \in Between(k, a) \ {s} : pos.p[x] = 0}

\* the pinned peices of the side to move
PinnedSquares(pos) ==
    {s \in Squares :
        /\ pos.p[s] # 0 /\ ColorBit(pos.p[s]) = pos.c /\ Kind(pos.p[s]) # KING
        /\ Pinners(pos, s) # {}}

\* the squares of the line of the pin of s: between king and slider, and the
\* slider's own square
PinLine(pos, s) ==
    UNION {{a} \cup Between(a, CHOOSE k \in Squares : pos.p[k] = pos.c * 8 + KING) :
           a \in Pinners(pos, s)}

\* the generated moves of the pinned peices that leave the line of the pin
OffLineMoves(pos) ==
    {t \in GeneratedTriples : t[1] \in PinnedSquares(pos) /\ t[2] \notin PinLine(pos, t[1])}

\* the legal moves of the pinned peices that the vector lacks
MissingPinnedMoves(pos) ==
    {t \in RefLegalMoves(pos) : t[1] \in PinnedSquares(pos)} \ GeneratedTriples

\* C9: the vector legalMoves() returned holds no move that takes a pinned
\* peice off the line of its pin, and holds every move of a pinned peice that
\* the rules allow: along the line, the capture of the pinning peice included
\* (stated for the runs in which every trial makeMove returned nonzero).
C9_PinnedPeicesStayOnLine ==
    (AtGenerated /\ NoFalseReturn) =>
        /\ OffLineMoves(RefPosition(Board)) = {}
        /\ MissingPinnedMoves(RefPosition(Board)) = {}

(***************************************************************************)
(* Repetition.                                                             *)
(***************************************************************************)
\* the number of times the current position has occurred, the initial
\* position counted
Occurrences == Cardinality({i \in 1..Len(seen) : seen[i] = seen[Len(seen)]})

\* C10: when a makeMove brings the current position about for the third
\* time, the initial position counted, isDrawByThreefoldRepitition() and
\* isDraw() return true, whatever value the uninitialised repititionFound
\* starts with.
C10_ThirdOccurrenceIsDraw ==
    (lastOp = "makeMove" /\ NoFalseReturn /\ Occurrences >= 3) =>
        \A garbage \in BOOLEAN :
            /\ isDrawByThreefoldRepitition(Board, garbage)
            /\ isDraw(Board, garbage)


\* the last n moves applied were neither pawn moves nor captures
QuietRun(n) ==
    /\ Len(played) >= n
    /\ \A i \in (Len(played) - n + 1)..Len(played) :
           played[i].captured = 0 /\ Kind(played[i].moving) # PAWN

\* C11: once 100 consecutive plies have been applied with makeMove without a
\* pawn move or a capture, isDrawByFiftyMoveRule() and isDraw() return true.
C11_HundredQuietPliesAreDrawn ==
    (lastOp = "makeMove" /\ QuietRun(100)) =>
        /\ isDrawByFiftyMoveRule(Board)
        /\ \A garbage \in BOOLEAN : isDraw(Board, garbage)

\* the hundredth quiet ply has just been applied
C11_HundredthQuietPly ==
    /\ lastOp = "makeMove"
    /\ Len(played) = 100
    /\ QuietRun(100)
    /\ HalfmoveClock(Board) = 100

\* a file letter a-h followed by a rank digit 1-8
IsSquareName(s) ==
    /\ Len(s) = 2
    /\ CharAt(s, 1) \in {"a", "b", "c", "d", "e", "f", "g", "h"}
    /\ CharAt(s, 2) \in {"1", "2", "3", "4", "5", "6", "7", "8"}

\* C20: boardIndexToAlgebraicNotation(i) followed by
\* algebraicNotationToBoardIndex gives i back for every i in 0..63, the
\* inverse round trip gives back every string of a file a-h and a rank 1-8,
\* and every other string and every other index throws invalid_argument.
C20_SquareNotationRoundTrip ==
    /\ io.op = "boardIndexToAlgebraicNotation" =>
          IF io.arg \in Squares
          THEN /\ ~io.result.threw
               /\ IsSquareName(io.result.value)
               /\ algebraicNotationToBoardIndex(io.result.value) = Returns(io.arg)
          ELSE io.result.threw
    /\ io.op = "algebraicNotationToBoardIndex" =>
          IF IsSquareName(io.arg)
          THEN /\ ~io.result.threw
               /\ io.result.value \in Squares
               /\ boardIndexToAlgebraicNotation(io.result.value) = Returns(io.arg)
          ELSE io.result.threw

\* "h8" has been converted to 63
C20_CornerConverted ==
    /\ io.op = "algebraicNotationToBoardIndex"
    /\ io.arg = "h8"
    /\ io.result = Returns(63)

\* C19: a == b is true if and only if the two moves have the same start,
\* the same target and the same promotion kind; in particular every move
\* equals itself, and the LEGAL, EN_PASSANT and CASTLE flags play no part.
C19_EqualIffStartTargetPromotion ==
    io.op = "operator==" =>
        (io.result <=> /\ io.a.start = io.b.start
                       /\ io.a.target = io.b.target
                       /\ promotion(io.a) = promotion(io.b))

\* e2e4 e7e5 f1c4 b8c6 d1h5 g8f6 h5f7
ScholarsMate ==
    << <<12, 28, 0>>, <<52, 36, 0>>, <<5, 26, 0>>, <<57, 42, 0>>,
       <<3, 39, 0>>, <<62, 45, 0>>, <<39, 53, 0>> >>

\* the consumer has applied the moves of ScholarsMate, and nothing else
AfterScholarsMate == [i \in 1..Len(played) |-> Triple(played[i])] = ScholarsMate

\* C13: after the moves of the scholar's mate have been applied from the
\* start position with makeMove, legalMoves() returns no move and inCheck()
\* is true.
C13_ScholarsMateIsCheckmate ==
    (AfterScholarsMate /\ lastOp = "legalMoves") =>
        /\ currentLegalMoves = <<>>
        /\ inCheckToMove(Board)

\* the only peices on the board are one white and one black king
OnlyTwoKings(bd) ==
    /\ Cardinality({i \in Squares : bd.peices[i] # 0}) = 2
    /\ \E i \in Squares : bd.peices[i] = WHITE + KING
    /\ \E i \in Squares : bd.peices[i] = BLACK + KING

\* C12: in every position whose only peices are the two kings, reached by
\* initializeFen or by a capture, isDrawByInsufficientMaterial() and isDraw()
\* return true, whatever the halfmove clock and the history.
C12_TwoKingsAreDrawn ==
    (lastOp \in {"initializeFen", "makeMove"} /\ OnlyTwoKings(Board)) =>
        /\ isDrawByInsufficientMaterial(Board)
        /\ \A garbage \in BOOLEAN : isDraw(Board, garbage)

\* a capture has just left the two kings alone on the board
C12_CaptureLeavesTwoKings ==
    /\ lastOp = "makeMove"
    /\ played[Len(played)].captured # 0
    /\ OnlyTwoKings(Board)
    /\ isDrawByInsufficientMaterial(Board)

\* initializeFen accepts asFEN() of the board and asFEN() of the parsed board
\* is the same string
RoundTrips(bd) ==
    \A early \in BOOLEAN :
        LET parsed == initializeFen(bd, asFEN(bd), early)
        IN  /\ ~parsed.undefined
            /\ parsed.what = ""
            /\ asFEN(parsed.board) = asFEN(bd)

\* C15: for every state reached from the start position by any number of
\* plies, initializeFen accepts the string of asFEN(), and asFEN() of the
\* parsed state is the same string in all six fields.
C15_FenRoundTrip ==
    lastOp \in {"initializeFen", "makeMove"} => RoundTrips(Board)

\* the squares that the chars i..Len(s) of a placement field take up to the
\* next '/': a digit stands for that many squares, any other char for one
RECURSIVE RankSquares(_, _)
RankSquares(s, i) ==
    IF i > Len(s) \/ CharAt(s, i) = "/" THEN 0
    ELSE (IF isdigit(CharAt(s, i)) THEN Code(CharAt(s, i)) - Code("0") ELSE 1)
         + RankSquares(s, i + 1)

\* the positions at which the ranks of a placement field start
RankStarts(s) == {1} \cup {i + 1 : i \in {j \in 1..Len(s) : CharAt(s, j) = "/"}}

\* some rank of the placement field does not sum to 8
SomeRankNotEight(s) == \E i \in RankStarts(s) : RankSquares(s, i) # 8

\* C16: initializeFen fails with a parse error for every placement field in
\* which some rank, the last one included, does not sum to exactly 8 squares,
\* be the sum smaller or larger.
C16_RankSumRejected ==
    (io.op = "initializeFen" /\ SomeRankNotEight(Field(io.arg, 1))) => io.what # ""

\* the text is a non-negative integer: digits after an optional plus sign
IsNonNegativeInteger(s) ==
    LET first == IF Len(s) >= 1 /\ CharAt(s, 1) = "+" THEN 2 ELSE 1
    IN  /\ Len(s) >= first
        /\ \A i \in first..Len(s) : isdigit(CharAt(s, i))

\* C17: initializeFen fails with a parse error whenever the halfmove clock
\* field or the fullmove number field is present and is no valid non-negative
\* integer; when a field is absent the halfmove clock is 0 and the fullmove
\* number is 1.
C17_CountersValidated ==
    io.op = "initializeFen" =>
        /\ (NumFields(io.arg) >= 5 /\ ~IsNonNegativeInteger(Field(io.arg, 5)))
               => io.what # ""
        /\ (NumFields(io.arg) >= 6 /\ ~IsNonNegativeInteger(Field(io.arg, 6)))
               => io.what # ""
        /\ (io.what = "" /\ falseReturns = 0 /\ NumFields(io.arg) < 5)
               => HalfmoveClock(Board) = 0
        /\ (io.what = "" /\ falseReturns = 0 /\ NumFields(io.arg) < 6)
               => Board.totalHalfmoves \div 2 + 1 = 1

\* C18: when initializeFen fails with an error, the Board State is what it
\* was before the call.
C18_FailureLeavesBoard ==
    (io.op = "initializeFen" /\ io.what # "") => Board = io.before

\* the board holds one king of each colour, where kingIndex says
OneKingEachAtIndex(bd) ==
    \A c \in 0..1 :
        /\ Cardinality({i \in Squares : bd.peices[i] = c * 8 + KING}) = 1
        /\ bd.peices[bd.kingIndex[c]] = c * 8 + KING

\* C21: in every position with one king per side, wherever the kings stand,
\* inCheck(c) and legalMoves() read peices[] only at indexes 0..63.
C21_ReadsStayOnBoard ==
    OneKingEachAtIndex(Board) =>
        /\ \A c \in 0..1 : inCheckPawnReads(Board, c) \subseteq Squares
        /\ legalMovesPawnReads(Board) \subseteq Squares

\* C22: after initializeFen, makeMove and unmakeMove the en passant history,
\* the halfmove clock history and the hash history each hold exactly
\* totalHalfmoves + 1 entries: the en passant array has its entry of the
\* current ply, the stack of clocks holds totalHalfmoves + 1 values, and a
\* hash is stored for each of the plies 0..totalHalfmoves.
C22_HistoriesHoldPlyPlusOne ==
    AfterBoardCall =>
        /\ totalHalfmoves \in DOMAIN eligibleEnPassantSquare
        /\ hmspmocIndex = totalHalfmoves + 1
        /\ \A i \in 0..totalHalfmoves : positionHistory[i] # UNINIT

\* the castling letters of the rights bd holds
RightsLetters(bd) ==
    {l \in {"K", "Q", "k", "q"} :
        \/ l = "K" /\ bd.kingsideCastlingRightsLost[0] = 0
        \/ l = "Q" /\ bd.queensideCastlingRightsLost[0] = 0
        \/ l = "k" /\ bd.kingsideCastlingRightsLost[1] = 0
        \/ l = "q" /\ bd.queensideCastlingRightsLost[1] = 0}

\* what initializeFen computes for the placement, side to move and castling
\* rights of bd with en passant square ep (-1: none)
SameWithEnPassant(bd, ep) ==
    initializeFenFields(bd.peices, bd.totalHalfmoves % 2 = 1, RightsLetters(bd),
                        ep, 0, 1)

\* C23: the hash includes the en passant file: when an en passant square is
\* eligible, the zobrist value differs from that of the state with the same
\* placement, side to move and castling rights and no en passant square, both
\* as initializeFen computes it and as makeMove maintains it.
C23_HashTellsEnPassant ==
    (AfterBoardCall /\ eligibleEnPassantSquare[totalHalfmoves] >= 0) =>
        /\ SameWithEnPassant(Board, eligibleEnPassantSquare[totalHalfmoves]).zobrist
               # SameWithEnPassant(Board, -1).zobrist
        /\ zobrist # SameWithEnPassant(Board, -1).zobrist

\* C24: for every candidate of legalMoves() that is neither flagged LEGAL nor
\* a castling move, isLegal returns true if and only if the mover's own king
\* is not attacked once the move is made, whatever makeMove returns; for a
\* candidate with the LEGAL flag it returns true.
C24_IsLegalTestsOwnKing ==
    (AtGenerated /\ NoFalseReturn) =>
        \A m \in {Candidates(Board)[i] : i \in DOMAIN Candidates(Board)} :
            \A ret \in BOOLEAN :
                /\ legalFlagSet(m) => isLegal(Board, m, ret).ok
                /\ TrialMove(m) =>
                       (isLegal(Board, m, ret).ok <=> ~LeavesOwnKingAttacked(Board, m))

\* C25: isLegal leaves the Board State as it found it whatever it returns:
\* a legalMoves() call ends with the placement, the hash, the ply, the
\* castling rights, the king squares, the counts and the histories it
\* started with.
C25_LegalMovesLeavesBoard ==
    [][lastOp' = "legalMoves" => Restorable(Board)' = Restorable(Board)]_vars

\* the same while every trial makeMove so far returned nonzero
LeavesBoardAfterTrueReturns ==
    [][(lastOp' = "legalMoves" /\ falseReturns' = 0)
          => Restorable(Board)' = Restorable(Board)]_vars

\* the square of the king of the side to move
RefKing(pos) == CHOOSE k \in Squares : pos.p[k] = pos.c * 8 + KING

\* the squares of the enemy peices that attack the king of the side to move
Checkers(pos) ==
    {s \in Squares : /\ pos.p[s] # 0 /\ ColorBit(pos.p[s]) = 1 - pos.c
                     /\ Attacks(pos.p, s, RefKing(pos))}

\* legalMoves() has returned for a board with one king each, every trial
\* makeMove so far having returned nonzero, and n enemy peices, none of
\* them the king, give check
GeneratedInCheck(n) ==
    /\ AtGenerated /\ NoFalseReturn
    /\ OneKingEachAtIndex(Board)
    /\ Cardinality(Checkers(RefPosition(Board))) = n
    /\ \A s \in Checkers(RefPosition(Board)) : Kind(peices[s]) # KING

\* C26: when two enemy peices attack the king of the side to move, every
\* move legalMoves() returns starts on the king's square, is no castling
\* move, and goes to an empty or enemy-occupied square on which the king is
\* not attacked after the move.
C26_DoubleCheckKingMovesOnly ==
    GeneratedInCheck(2) =>
        \A i \in 1..Len(currentLegalMoves) :
            LET m == currentLegalMoves[i]
                pos == RefPosition(Board)
            IN  /\ m.start = RefKing(pos)
                /\ ~isCastling(m)
                /\ (pos.p[m.target] = 0 \/ ColorBit(pos.p[m.target]) = 1 - pos.c)
                /\ ~RefInCheck(RefApply(pos, Triple(m), FALSE), pos.c)

\* the squares on which a move ends a single check: the checker's square
\* and, when the checker slides, the squares between it and the king
CheckLine(pos) ==
    UNION {{a} \cup (IF Kind(pos.p[a]) \in {BISHOP, ROOK, QUEEN}
                        THEN Between(a, RefKing(pos)) ELSE {}) :
           a \in Checkers(pos)}

\* C27: when exactly one enemy peice gives check, every move legalMoves()
\* returns that is not a king move goes to the checker's square or between
\* checker and king, or takes the checking pawn en passant; no move of a
\* pinned peice and no castling move is returned.
C27_SingleCheckIsResolved ==
    GeneratedInCheck(1) =>
        \A i \in 1..Len(currentLegalMoves) :
            LET m == currentLegalMoves[i]
                pos == RefPosition(Board)
            IN  /\ ~isCastling(m)
                /\ m.start \notin PinnedSquares(pos)
                /\ m.start # RefKing(pos) =>
                       \/ m.target \in CheckLine(pos)
                       \/ isEnPassant(m) /\ CaptureSquare(m) \in Checkers(pos)

\* the rules allow the side to move to castle on the wing: it holds the
\* right, the squares between king and rook are empty, the king is not in
\* check, and the square the king crosses and the one it lands on are not
\* attacked by any enemy peice
CastlingAllowed(pos, kingside) ==
    LET k == 56 * pos.c + 4
        between == IF kingside THEN {k + 1, k + 2} ELSE {k - 1, k - 2, k - 3}
        path == IF kingside THEN {k + 1, k + 2} ELSE {k - 1, k - 2}
    IN  /\ IF kingside THEN pos.ks[pos.c] ELSE pos.qs[pos.c]
        /\ \A x \in between : pos.p[x] = 0
        /\ ~RefAttacked(pos.p, RefKing(pos), 1 - pos.c)
        /\ \A x \in path : ~RefAttacked(pos.p, x, 1 - pos.c)

\* the vector legalMoves() returned holds the castling move of the wing
CastlingGenerated(kingside) ==
    \E i \in 1..Len(currentLegalMoves) :
        /\ isCastling(currentLegalMoves[i])
        /\ currentLegalMoves[i].start = 56 * (totalHalfmoves % 2) + 4
        /\ currentLegalMoves[i].target =
               56 * (totalHalfmoves % 2) + (IF kingside THEN 6 ELSE 2)

\* legalMoves() has returned for a board with one king each, every trial
\* makeMove so far having returned nonzero
GeneratedOnSoundBoard ==
    /\ AtGenerated /\ NoFalseReturn
    /\ OneKingEachAtIndex(Board)

HomeCorner(s, kingside) == 56 * s + (IF kingside THEN 7 ELSE 0)

\* the loss ply kept for the right of side s on the wing: 0 while it is held
RightLost(bd, s, kingside) ==
    IF kingside THEN bd.kingsideCastlingRightsLost[s]
                ELSE bd.queensideCastlingRightsLost[s]

\* is the hash key of the right of side s on the wing XORed into the hash
RightKeyed(bd, s, kingside) ==
    (IF kingside THEN ZOBRIST_KINGSIDE_CASTLING_KEYS(s)
                 ELSE ZOBRIST_QUEENSIDE_CASTLING_KEYS(s)) \in bd.zobrist

\* by the rules move m on board bd ends the right of side s on the wing: the
\* king of s moves, the rook of s leaves its home corner of the wing, or a
\* peice of the other side lands on that corner
EndsRight(bd, m, s, kingside) ==
    LET mover == bd.peices[m.start]
    IN  \/ mover = s * 8 + KING
        \/ mover = s * 8 + ROOK /\ m.start = HomeCorner(s, kingside)
        \/ /\ mover # 0 /\ ColorBit(mover) # s
           /\ m.target = HomeCorner(s, kingside)

\* makeMove(m) took bd to `after` and unmakeMove(m) took `after` to `back`:
\* the right of side s on the wing was treated as the rules say, and
\* restored if its loss ply is the ply undone
RightFollowsRules(bd, m, after, back, s, kingside) ==
    LET held == RightLost(bd, s, kingside) = 0
        ends == held /\ EndsRight(bd, m, s, kingside)
        undone == RightLost(after, s, kingside) = after.totalHalfmoves
    IN  /\ after.totalHalfmoves = bd.totalHalfmoves + 1
        /\ RightLost(after, s, kingside) =
               IF ends THEN after.totalHalfmoves ELSE RightLost(bd, s, kingside)
        /\ (RightKeyed(after, s, kingside) # RightKeyed(bd, s, kingside)) <=> ends
        /\ ~held => RightLost(after, s, kingside) # 0
        /\ RightLost(back, s, kingside) =
               IF undone THEN 0 ELSE RightLost(after, s, kingside)
        /\ (RightKeyed(back, s, kingside) # RightKeyed(after, s, kingside))
               <=> undone

\* the board is one legalMoves() can be called on
BoardCanGenerate ==
    /\ lastOp \in {"initializeFen", "legalMoves", "makeMove", "unmakeMove"}
    /\ legalMovesPawnReads(Board) \subseteq Squares

\* a peice has just taken the rook on its kingside home corner while the
\* rook's side held the kingside right, and the right is lost at this ply
C29_RookTakenAtHome ==
    /\ lastOp = "makeMove"
    /\ played # <<>>
    /\ \E s \in 0..1 :
           /\ played[Len(played)].target = HomeCorner(s, TRUE)
           /\ played[Len(played)].captured = s * 8 + ROOK
           /\ ColorBit(played[Len(played)].moving) # s
           /\ kingsideCastlingRightsLost[s] = totalHalfmoves
           /\ ~RightKeyed(Board, s, TRUE)

\* C29: makeMove sets the loss ply of a held castling right to the new
\* totalHalfmoves and toggles its hash key once exactly when the side's king
\* moves, its rook leaves the home corner of the wing or an enemy peice
\* lands on that corner; no other move changes a right, a right that is not
\* held stays lost, and unmakeMove restores exactly the rights whose loss
\* ply is the ply undone.
C29_RightsFollowRules ==
    BoardCanGenerate =>
        \A cands \in {Candidates(Board)} :
            \A i \in 1..Len(cands) :
                \A after \in {makeMove(Board, cands[i])} :
                    \A back \in {unmakeMove(after, cands[i])} :
                        \A s \in 0..1, kingside \in BOOLEAN :
                            RightFollowsRules(Board, cands[i], after, back,
                                              s, kingside)

\* by the rules move m on board bd restarts the halfmove clock: it moves a
\* pawn (en passant and promotion included) or takes a peice
RestartsClock(bd, m) ==
    \/ Kind(bd.peices[m.start]) = PAWN
    \/ bd.peices[m.target] # 0

\* C30: after makeMove(m) the current halfmove-clock value is 0 if m moves a
\* pawn or captures a peice, and otherwise the previous value plus 1; after
\* the matching unmakeMove it is again the value before makeMove.
C30_ClockFollowsRules ==
    (BoardCanGenerate /\ hmspmocIndex >= 1) =>
        \A cands \in {Candidates(Board)} :
            \A i \in 1..Len(cands) :
                \A after \in {makeMove(Board, cands[i])} :
                    \A back \in {unmakeMove(after, cands[i])} :
                        /\ HalfmoveClock(after) =
                               IF RestartsClock(Board, cands[i])
                                  THEN 0 ELSE HalfmoveClock(Board) + 1
                        /\ HalfmoveClock(back) = HalfmoveClock(Board)

\* a peice other than a pawn has just captured after four plies without a
\* pawn move or capture, and the clock is 0
C30_CaptureRestartsClock ==
    /\ lastOp = "makeMove"
    /\ Len(played) >= 5
    /\ played[Len(played)].captured # 0
    /\ Kind(played[Len(played)].moving) # PAWN
    /\ \A i \in (Len(played) - 4)..(Len(played) - 1) :
           played[i].captured = 0 /\ Kind(played[i].moving) # PAWN
    /\ HalfmoveClock(Board) = 0

(***************************************************************************)
(* The confirmed-legal flag (DrawableBoard.hpp 686-822, 855-1016, 1464).   *)
(***************************************************************************)
\* the king of the side to move on bd is attacked, by the rules, once m is
\* made on bd
MoverKingAttackedAfter(bd, m) ==
    \E after \in {makeMove(bd, m)} :
        \E k \in Squares :
            /\ after.peices[k] = 8 * (bd.totalHalfmoves % 2) + KING
            /\ RefAttacked(after.peices, k, 1 - (bd.totalHalfmoves % 2))

\* the candidates legalMoves() builds for bd with the LEGAL flag set that
\* leave the mover's king attacked
FlaggedUnsound(bd) ==
    \E cands \in {Candidates(bd)} :
        \E i \in 1..Len(cands) :
            legalFlagSet(cands[i]) /\ MoverKingAttackedAfter(bd, cands[i])

\* the king of the side that is not to move is not attacked: the last move
\* was a legal one
EnemyKingSafe(bd) ==
    ~RefAttacked(bd.peices, bd.kingIndex[1 - (bd.totalHalfmoves % 2)],
                 bd.totalHalfmoves % 2)

\* C31: on every board legalMoves() can be called on (one king each, every
\* trial makeMove so far having returned nonzero), no candidate it builds
\* with the LEGAL flag set leaves the mover's king attacked when applied.
C31_FlaggedMovesAreSound ==
    (BoardCanGenerate /\ NoFalseReturn /\ OneKingEachAtIndex(Board))
        => ~FlaggedUnsound(Board)

\* the same on the boards whose last move did not leave its own king
\* attacked, whatever the trial calls returned
FlaggedSoundAfterLegalMoves ==
    (BoardCanGenerate /\ OneKingEachAtIndex(Board) /\ EnemyKingSafe(Board))
        => ~FlaggedUnsound(Board)

(***************************************************************************)
(* En passant (DrawableBoard.hpp 656-675, 1034-1036, 1096-1101).           *)
(***************************************************************************)
\* the en-passant-eligible square of the current ply of bd, -1 for none
EligibleNow(bd) == bd.eligibleEnPassantSquare[bd.totalHalfmoves]

\* by the rules move m on board bd is a pawn advance of two ranks
DoublePush(bd, m) ==
    /\ Kind(bd.peices[m.start]) = PAWN
    /\ File(m.target) = File(m.start)
    /\ Abs(Rank(m.target) - Rank(m.start)) = 2

\* the square a pawn advance of two ranks passes over
PassedOver(m) == At(File(m.start), (Rank(m.start) + Rank(m.target)) \div 2)

\* the square directly behind target t, seen from the side c that captures
BehindTarget(t, c) == At(File(t), IF c = 0 THEN Rank(t) - 1 ELSE Rank(t) + 1)

\* en passant candidate m of board bd goes from a pawn of the side to move,
\* diagonally forward, onto the eligible square of the ply, and making it
\* (board after) empties the square behind the target, where an enemy pawn
\* stood, and takes that pawn out of the counts
CapturesBehind(bd, m, after) ==
    LET c == bd.totalHalfmoves % 2
        behind == BehindTarget(m.target, c)
    IN  /\ EligibleNow(bd) >= 0
        /\ m.target = EligibleNow(bd)
        /\ bd.peices[m.start] = c * 8 + PAWN
        /\ Abs(File(m.start) - File(m.target)) = 1
        /\ Rank(m.start) = Rank(behind)
        /\ bd.peices[behind] = (1 - c) * 8 + PAWN
        /\ after.peices[behind] = 0
        /\ after.peices[m.start] = 0
        /\ after.peices[m.target] = c * 8 + PAWN
        /\ after.numPeices[(1 - c) * 8 + PAWN]
               = bd.numPeices[(1 - c) * 8 + PAWN] - 1
        /\ after.numTotalPeices[1 - c] = bd.numTotalPeices[1 - c] - 1

\* the en passant candidates legalMoves() builds on the board after m all go
\* onto the square m passed over, and there are none unless m is a pawn
\* advance of two ranks
OfferedOnlyAfterDoublePush(bd, m, after) ==
    legalMovesPawnReads(after) \subseteq Squares =>
        \A next \in {Candidates(after)} :
            \A j \in 1..Len(next) :
                isEnPassant(next[j]) =>
                    DoublePush(bd, m) /\ next[j].target = PassedOver(m)

\* C32: after makeMove(m) the en-passant-eligible square of the new ply is
\* the square the pawn passed over if m is a pawn advance of two ranks and
\* none otherwise; legalMoves() builds en passant captures only onto that
\* square and only on the ply right after the advance; making one removes
\* the enemy pawn directly behind the target square.
C32_EnPassantFollowsRules ==
    BoardCanGenerate =>
        \A cands \in {Candidates(Board)} :
            \A i \in 1..Len(cands) :
                \A after \in {makeMove(Board, cands[i])} :
                    /\ EligibleNow(after) =
                           IF DoublePush(Board, cands[i])
                              THEN PassedOver(cands[i]) ELSE -1
                    /\ isEnPassant(cands[i])
                           => CapturesBehind(Board, cands[i], after)
                    /\ OfferedOnlyAfterDoublePush(Board, cands[i], after)

\* a pawn has just been taken en passant on the ply after its advance of two
\* ranks: the square behind the target is empty
C32_TakenEnPassant ==
    /\ lastOp = "makeMove"
    /\ Len(played) >= 2
    /\ isEnPassant(played[Len(played)])
    /\ Kind(played[Len(played) - 1].moving) = PAWN
    /\ Abs(played[Len(played) - 1].target - played[Len(played) - 1].start) = 16
    /\ played[Len(played)].target
           = (played[Len(played) - 1].start + played[Len(played) - 1].target) \div 2
    /\ peices[played[Len(played) - 1].target] = 0
    /\ EligibleNow(Board) = -1

\* the same when no trial call of isLegal has returned zero so far
EnPassantAfterTrueReturns == NoFalseReturn => C32_EnPassantFollowsRules

(***************************************************************************)
(* Reversal with a move that was not the last one made (DrawableBoard.hpp  *)
(* 1132-1223).  The consumer of this specification may hand unmakeMove any *)
(* move it has applied; io records the call: the move given, the move      *)
(* applied last, and what the call signalled ("" when it returned).        *)
(***************************************************************************)
\* seq without its k-th element
Without(seq, k) == SubSeq(seq, 1, k - 1) \o SubSeq(seq, k + 1, Len(seq))

\* unmakeMove(played[k]): 1133-1223 hold no test and no throw statement, the
\* call changes the members and returns
UnmakeAnyMove ==
    /\ played # <<>>
    /\ unmakes < MaxUnmakes
    /\ \E k \in 1..Len(played) :
         /\ SetBoard(unmakeMove(Board, played[k]))
         /\ io' = [op |-> "unmakeMove", arg |-> played[k],
                   last |-> played[Len(played)], what |-> ""]
         /\ played' = Without(played, k)
    /\ seen' = SubSeq(seen, 1, Len(seen) - 1)
    /\ unmakes' = unmakes + 1
    /\ lastOp' = "unmakeMove"
    /\ UNCHANGED << currentLegalMoves, falseReturns >>

MisuseNext == LegalMoves \/ MakeMove \/ UnmakeAnyMove

MisuseSpec == Init /\ [][MisuseNext]_vars

\* the hash of the board is not the one makeMove recorded when the current
\* ply was reached
HashNotAsRecorded(bd) ==
    /\ bd.totalHalfmoves >= 1
    /\ Truncate32(bd.zobrist) # bd.positionHistory[bd.totalHalfmoves - 1]

\* C33: when unmakeMove has been called with a move that is not the move
\* applied last, or has restored a board whose hash is not the recorded one,
\* the call has signalled an error.
C33_MisuseIsSignalled ==
    (/\ lastOp = "unmakeMove"
     /\ io.op = "unmakeMove"
     /\ (io.arg # io.last \/ HashNotAsRecorded(Board)))
        => io.what # ""

\* unmakeMove returns without a signal, whatever move it is given
UnmakeMoveNeverSignals == io.op = "unmakeMove" => io.what = ""

\* a call with the move applied last restores the recorded hash
LastMoveRestoresRecordedHash ==
    (/\ lastOp = "unmakeMove"
     /\ io.op = "unmakeMove"
     /\ io.arg = io.last
     /\ NoFalseReturn)
        => ~HashNotAsRecorded(Board)

(***************************************************************************)
(* The capacity of the history arrays (DrawableBoard.hpp 167, 170, 180):   *)
(* eligibleEnPassantSquare[500], halfmovesSincePawnMoveOrCapture[250],     *)
(* positionHistory[500].                                                   *)
(***************************************************************************)
EnPassantCapacity == 500
ClockCapacity == 250
HashCapacity == 500

\* 369-387: the index at which initializeFen(fenString) writes
\* eligibleEnPassantSquare[], for a call that gets as far as that statement
initializeFenWrites(bd, fenString, early) ==
    LET r == initializeFen(bd, fenString, early)
    IN  IF r.what = "" THEN {r.board.totalHalfmoves} ELSE {}

\* 1089-1101, 1129: the indexes at which makeMove(m) writes the three arrays
makeMoveWrites(bd, m) ==
    [eligibleEnPassantSquare |-> bd.totalHalfmoves + 1,
     halfmovesSincePawnMoveOrCapture |->
         IF m.captured # 0 \/ m.moving = (m.moving \div 8) * 8 + PAWN
            THEN bd.hmspmocIndex ELSE bd.hmspmocIndex - 1,
     positionHistory |-> bd.totalHalfmoves]

\* the consumer can call initializeFen now
BeforeInitializeFen == lastOp = "initializeFen" /\ played = <<>> /\ io.op = "none"

\* C34: every initializeFen call on an accepted FEN writes
\* eligibleEnPassantSquare[] at an index below 500, and every makeMove of a
\* candidate writes eligibleEnPassantSquare[] and positionHistory[] below
\* 500 and halfmovesSincePawnMoveOrCapture[] below 250.
C34_WritesBelowCapacity ==
    /\ BeforeInitializeFen =>
           \A fenString \in FenInputs, early \in BOOLEAN :
               initializeFenWrites(Board, fenString, early)
                   \subseteq 0..(EnPassantCapacity - 1)
    /\ BoardCanGenerate =>
           \A cands \in {Candidates(Board)} :
               \A i \in 1..Len(cands) :
                   \A w \in {makeMoveWrites(Board, cands[i])} :
                       /\ w.eligibleEnPassantSquare \in 0..(EnPassantCapacity - 1)
                       /\ w.halfmovesSincePawnMoveOrCapture \in 0..(ClockCapacity - 1)
                       /\ w.positionHistory \in 0..(HashCapacity - 1)

\* the FEN inputs whose call writes eligibleEnPassantSquare[] at or past
\* the capacity
FenInputsPastCapacity ==
    {fenString \in FenInputs :
        \E i \in initializeFenWrites(StartBoard, fenString, FALSE) :
            i >= EnPassantCapacity}

(***************************************************************************)
(* Castling rights and the home squares (DrawableBoard.hpp 311-342,        *)
(* 1103-1127, 1197-1214).                                                  *)
(***************************************************************************)
\* side s holds a castling right on board bd without its king on the e-file
\* square of its home rank or without a rook of its own on the corner of
\* the wing
RightWithoutHomeSquares(bd, s, kingside) ==
    /\ RightLost(bd, s, kingside) = 0
    /\ \/ bd.peices[56 * s + 4] # s * 8 + KING
       \/ bd.peices[HomeCorner(s, kingside)] # s * 8 + ROOK

\* C35: after initializeFen and after any sequence of makeMove and
\* unmakeMove calls, a castling-rights-lost value of 0 for a side and wing
\* means that the side's king stands on the e-file square of its home rank
\* and a rook of that side on the corner square of the wing.
C35_RightImpliesHomeSquares ==
    lastOp \in {"initializeFen", "legalMoves", "makeMove", "unmakeMove"} =>
        \A s \in 0..1, kingside \in BOOLEAN :
            ~RightWithoutHomeSquares(Board, s, kingside)

\* the same when no trial call of isLegal has returned zero so far and no
\* king has been taken
HomeSquaresAfterTrueReturns ==
    (NoFalseReturn /\ OneKingEachAtIndex(Board)) => C35_RightImpliesHomeSquares

(***************************************************************************)
(* The check count of legalMoves() (DrawableBoard.hpp 414-639) and         *)
(* inCheck (1280-1385).                                                    *)
(***************************************************************************)
\* legalMoves() and inCheck(side to move) can both be called on the board:
\* one king each, and the pawn tests of both read inside peices[]
BoardCanBeScanned ==
    /\ BoardCanGenerate
    /\ OneKingEachAtIndex(Board)
    /\ inCheckPawnReads(Board, totalHalfmoves % 2) \subseteq Squares

\* the check count of the scan is greater than zero exactly when
\* inCheck(side to move) returns true, and 2 or more exactly when at least
\* two enemy peices attack the king
ScanAgrees(bd) ==
    \A st \in {CheckScan(bd)} :
        /\ st.checks > 0 <=> inCheckToMove(bd)
        /\ st.checks >= 2 <=> Cardinality(Checkers(RefPosition(bd))) >= 2

\* C36: in every reachable position the check count of the scan at the
\* start of legalMoves() is greater than zero exactly when inCheck(side to
\* move) returns true, and 2 or more exactly when at least two enemy peices
\* attack the king (stated for the runs in which every trial makeMove of
\* isLegal returned nonzero).
C36_ScanAgreesWithInCheck ==
    (BoardCanBeScanned /\ NoFalseReturn) => ScanAgrees(Board)

\* the same on the boards whose last move did not leave its own king
\* attacked, whatever the trial calls returned
ScanAgreesAfterLegalMoves ==
    (BoardCanBeScanned /\ EnemyKingSafe(Board)) => ScanAgrees(Board)

(***************************************************************************)
(* The two ways legalMoves() answers a single check (DrawableBoard.hpp     *)
(* 677-825 and 827-1016).                                                  *)
(***************************************************************************)
\* 656-825: the candidates of the branch taken with fewer than 3 checking
\* squares
BackwardCandidates(bd, c, st) ==
    EnPassantMoves(bd, c, st) \o KingMovesInCheck(bd, c, st)
    \o BackwardMoves(bd, c, st)

\* 656-675, 827-1016: the candidates of the branch taken otherwise
ForwardCandidates(bd, c, st) ==
    EnPassantMoves(bd, c, st) \o CastlingMoves(bd, c, st)
    \o ConcatRange([s \in Squares |-> GeneralMoves(bd, c, st, s)], 0, 63)

\* the moves legalMoves() returns for candidates cands when every trial
\* makeMove returns nonzero, as <<start, target, promotion>> triples
Produced(bd, cands) ==
    LET r == FilterMoves(bd, cands, {})
    IN  {Triple(r.moves[i]) : i \in 1..Len(r.moves)}

\* the candidates of cands that do not leave the mover's king attacked
SoundOf(bd, cands) ==
    {Triple(cands[i]) : i \in {j \in 1..Len(cands) :
                                  ~MoverKingAttackedAfter(bd, cands[j])}}

\* exactly one enemy peice attacks the king of the side to move, and the
\* scan of legalMoves() counts one check
SingleCheck(bd, st) ==
    st.checks = 1 /\ Cardinality(Checkers(RefPosition(bd))) = 1

\* C37: in every position with exactly one checking peice the moves the
\* backward scan from the checking squares produces are the moves the
\* forward generation restricted to the checking squares produces (stated
\* for the runs in which every trial makeMove of isLegal returns nonzero).
C37_SingleCheckRegimesAgree ==
    BoardCanBeScanned =>
        \A st \in {CheckScan(Board)} :
            SingleCheck(Board, st) =>
                \E c \in {totalHalfmoves % 2} :
                    Produced(Board, BackwardCandidates(Board, c, st))
                        = Produced(Board, ForwardCandidates(Board, c, st))

\* the two branches build the same moves that do not leave the king
\* attacked
RegimesAgreeOnSoundMoves ==
    BoardCanBeScanned =>
        \A st \in {CheckScan(Board)} :
            SingleCheck(Board, st) =>
                \E c \in {totalHalfmoves % 2} :
                    SoundOf(Board, BackwardCandidates(Board, c, st))
                        = SoundOf(Board, ForwardCandidates(Board, c, st))


\* the number of plies applied since the last pawn move or capture, the game
\* having started with the clock at 0
QuietPlies ==
    CHOOSE n \in 0..Len(played) :
        /\ QuietRun(n)
        /\ n < Len(played) => ~QuietRun(n + 1)

\* C38: in every state where fewer than 100 plies have elapsed since the last
\* pawn move or capture, isDrawByFiftyMoveRule() returns false.
C38_NoEarlyFiftyMoveDraw ==
    QuietPlies < 100 => ~isDrawByFiftyMoveRule(Board)

\* the clock entry isDrawByFiftyMoveRule() reads holds the number of plies
\* since the last pawn move or capture
ClockCountsQuietPlies == HalfmoveClock(Board) = QuietPlies

\* isDrawByFiftyMoveRule() returns false while fewer than 50 plies have
\* elapsed since the last pawn move or capture
NoDrawBeforeFiftyPlies ==
    QuietPlies < 50 => ~isDrawByFiftyMoveRule(Board)

=============================================================================
